---- MODULE Spec2Model ----
(***************************************************************************)
(* Session-scoped resource lifecycle of the PDF tool server:               *)
(*   utils/file_manager.py  (per-session directories)                      *)
(*   utils/cleanup.py       (explicit clear, periodic sweep)               *)
(*   app.py                 (preview cache, session metadata, handlers)    *)
(*                                                                         *)
(* Time is kept as AGES (now - timestamp) that Tick advances together;     *)
(* an age saturates once it is past every threshold it is compared with.   *)
(***************************************************************************)
EXTENDS Integers, Sequences, FiniteSets, TLC

(***************************************************************************)
(* Bounds of the model.                                                    *)
(***************************************************************************)
NumClients == 2
NumTrackClients == 1
NumContents == 1
NumStems == 2
NumUploadStems == 1
NumThumbStems == 1
MaxTracked == 2
IdLen == 2
NumDigits == 3
TimeStep == 10
MaxWorkers == 2

(***************************************************************************)
(* Program constants.  Ages are counted in minutes.                        *)
(***************************************************************************)
CACHE_EXPIRY_MINUTES == 30
SESSION_TIMEOUT_SECONDS == 600
SESSION_TIMEOUT_MINUTES == SESSION_TIMEOUT_SECONDS \div 60
\* run_cleanup
UPLOAD_FILE_RETENTION_MINUTES == 10
PREVIEW_FILE_RETENTION_MINUTES == 10
PROCESSED_FILE_RETENTION_MINUTES == 10
\* cleanup_aged_files: max(processed_max_age_minutes, 10)
SWEEP_FLOOR_MINUTES == 10

Classes == {"uploads", "processed", "previews"}
PLACEHOLDER_FILENAME == "no_preview_available.jpg"
ToolIds == {"rotate", "unlock"}
Passwords == {""}
HexChars == <<"0", "1", "2", "3", "4", "5", "6", "7", "8", "9", "a", "b", "c", "d", "e", "f">>

Clients == 1..NumClients
TrackClients == 1..NumTrackClients
\* uploaded documents: document k has k pages
Contents == 1..NumContents
\* the random components of generated file names, as numbers; those that
\* the requests of client c can draw are reserved for c
Stems == 1..(NumClients * NumStems)
UploadStems == 1..(NumClients * NumUploadStems)
ThumbStems == 1..(NumClients * NumThumbStems)
Reserved(c, n) == ((c - 1) * n + 1)..(c * n)
IdDigits == {HexChars[i] : i \in 1..NumDigits}
AllIds == [1..IdLen -> IdDigits]

Min(a, b) == IF a < b THEN a ELSE b
Max(a, b) == IF a > b THEN a ELSE b

\* saturation points of the three kinds of age
DirAgeCap ==
    Max(Max(UPLOAD_FILE_RETENTION_MINUTES, PREVIEW_FILE_RETENTION_MINUTES),
        Max(PROCESSED_FILE_RETENTION_MINUTES, SWEEP_FLOOR_MINUTES)) + TimeStep
CacheAgeCap == CACHE_EXPIRY_MINUTES + TimeStep
Older(age, cap) == Min(age + TimeStep, cap)

IsPrefix(p, q) == Len(p) <= Len(q) /\ SubSeq(q, 1, Len(p)) = p

(***************************************************************************)
(* utils/file_manager.py                                                   *)
(***************************************************************************)
\* uuid.uuid4(): the id minted for a client is unique to that client
Uuid4(c) == [j \in 1..IdLen |-> HexChars[c]]

\* f"sess_{session_id}": one path component
SessDirName(session_id) == <<"sess_">> \o session_id

\* os.path.join(base_folder, f"sess_{session_id}")
get_session_folder_path(base_folder, session_id) ==
    <<base_folder, SessDirName(session_id)>>

\* variant: the directory name keeps only a leading part of the id
get_session_folder_short(base_folder, session_id) ==
    <<base_folder, <<"sess_">> \o SubSeq(session_id, 1, Len(session_id) - 1)>>

\* the directory that get_session_folder ensures and returns
get_session_folder(base_folder, session_id) ==
    get_session_folder_path(base_folder, session_id)

\* a path as the string of its characters, components joined by "/"
PathString(path) == <<path[1], "/">> \o path[2]
\* the components of a path string
RECURSIVE SplitPath(_)
SplitPath(str) ==
    IF \A i \in DOMAIN str : str[i] # "/" THEN <<str>>
    ELSE LET i == CHOOSE j \in DOMAIN str :
                      str[j] = "/" /\ \A k \in 1..(j - 1) : str[k] # "/"
         IN <<SubSeq(str, 1, i - 1)>> \o SplitPath(SubSeq(str, i + 1, Len(str)))

(***************************************************************************)
(* The filesystem: for every storage class, the class root and the         *)
(* sess_<id> directories in it.  A directory records the ages of its       *)
(* mtime and ctime and its regular files; a file records the age of its    *)
(* mtime and its content.                                                  *)
(***************************************************************************)
RootLoc == <<".">>
DirNames == {SessDirName(Uuid4(c)) : c \in Clients}
Locs == {RootLoc} \cup DirNames
EmptyFn == [x \in {} |-> 0]
AbsentDir == [exists |-> FALSE, m |-> 0, c |-> 0, files |-> EmptyFn]
NewDir == [exists |-> TRUE, m |-> 0, c |-> 0, files |-> EmptyFn]

Put(f, k, v) == [x \in (DOMAIN f) \cup {k} |-> IF x = k THEN v ELSE f[x]]
Drop(f, k) == [x \in (DOMAIN f) \ {k} |-> f[x]]
Range(s) == {s[i] : i \in DOMAIN s}

VARIABLES fs, PREVIEW_CACHE, session, last, probe, workers, call,
          last_time_called, clock, scheduler

vars == <<fs, PREVIEW_CACHE, session, last, probe, workers, call,
          last_time_called, clock, scheduler>>

\* os.path.join(folder, name): a stored name carries the directory part the
\* client gave it ("." for none, ".." for a leading "../")
JoinPath(folder, name) ==
    [cls |-> folder[1],
     loc |-> IF name.dir = ".." THEN RootLoc ELSE folder[2],
     base |-> [stem |-> name.stem, ext |-> name.ext]]

DirOf(f, folder) == f[folder[1]][folder[2]]
\* variant: every path is taken to exist
PathExistsAny(f, p) == TRUE

\* os.path.exists / os.path.isfile of a file path
PathExists(f, p) == f[p.cls][p.loc].exists /\ p.base \in DOMAIN f[p.cls][p.loc].files
\* os.listdir of a directory (regular files)
ListDir(f, folder) == IF DirOf(f, folder).exists THEN DOMAIN DirOf(f, folder).files ELSE {}

\* variant: a change of a directory's entries leaves its times as they were
TouchKept(d) == d

\* a change of a directory's entries sets its mtime and its ctime (POSIX)
Touch(d) == [d EXCEPT !.m = 0, !.c = 0]
TouchLoc(loc, d) == IF loc = RootLoc THEN d ELSE Touch(d)

\* variant: the folder is made anew even when it exists
MakeDirsAnew(f, folder) == [f EXCEPT ![folder[1]][folder[2]] = NewDir]

\* os.makedirs(folder, exist_ok=True)
MakeDirs(f, folder) ==
    IF DirOf(f, folder).exists THEN f
    ELSE [f EXCEPT ![folder[1]][folder[2]] = NewDir]

\* shutil.rmtree(folder)
RmTree(f, folder) == [f EXCEPT ![folder[1]][folder[2]] = AbsentDir]

WriteFile(f, p, rec) ==
    [f EXCEPT ![p.cls][p.loc] =
        TouchLoc(p.loc, [@ EXCEPT !.files = Put(@, p.base, rec)])]

\* os.remove(path)
RemoveFile(f, p) ==
    [f EXCEPT ![p.cls][p.loc] =
        TouchLoc(p.loc, [@ EXCEPT !.files = Drop(@, p.base)])]

\* os.rename(old, new): the file keeps its mtime and content
RenamePath(f, old, new) ==
    WriteFile(RemoveFile(f, old), new, f[old.cls][old.loc].files[old.base])

(***************************************************************************)
(* app.py: the preview cache                                               *)
(***************************************************************************)
PlaceholderName == [stem |-> 0, ext |-> PLACEHOLDER_FILENAME]
NoPreviews == [thumbnails |-> <<>>, page_count |-> 0]

\* cache_key = f"{file_hash}_{password}"; the MD5 of the bytes stands for them
CacheKey(content, password) == <<content, password>>

\* variant: an entry exactly CACHE_EXPIRY old is still served
get_cached_previews_inclusive(cache, cache_key) ==
    IF cache_key \in DOMAIN cache
    THEN IF cache[cache_key].age <= CACHE_EXPIRY_MINUTES
         THEN [hit |-> TRUE, previews |-> cache[cache_key].previews, cache |-> cache]
         ELSE [hit |-> FALSE, previews |-> NoPreviews, cache |-> Drop(cache, cache_key)]
    ELSE [hit |-> FALSE, previews |-> NoPreviews, cache |-> cache]

\* variant: the comparison with CACHE_EXPIRY is the wrong way round
get_cached_previews_inverted(cache, cache_key) ==
    IF cache_key \in DOMAIN cache
    THEN IF cache[cache_key].age > CACHE_EXPIRY_MINUTES
         THEN [hit |-> TRUE, previews |-> cache[cache_key].previews, cache |-> cache]
         ELSE [hit |-> FALSE, previews |-> NoPreviews, cache |-> Drop(cache, cache_key)]
    ELSE [hit |-> FALSE, previews |-> NoPreviews, cache |-> cache]

\* get_cached_previews: the entry if it is younger than CACHE_EXPIRY, else
\* the key is deleted and None is returned
get_cached_previews(cache, cache_key) ==
    IF cache_key \in DOMAIN cache
    THEN IF cache[cache_key].age < CACHE_EXPIRY_MINUTES
         THEN [hit |-> TRUE, previews |-> cache[cache_key].previews, cache |-> cache]
         ELSE [hit |-> FALSE, previews |-> NoPreviews, cache |-> Drop(cache, cache_key)]
    ELSE [hit |-> FALSE, previews |-> NoPreviews, cache |-> cache]

\* variant: the thumbnails are added to those of the entry that is there
cache_previews_merged(cache, cache_key, thumbnails, page_count) ==
    Put(cache, cache_key,
        [previews |-> [thumbnails |->
                          IF cache_key \in DOMAIN cache
                          THEN cache[cache_key].previews.thumbnails \o thumbnails
                          ELSE thumbnails,
                       page_count |-> page_count],
         age |-> 0])

\* cache_previews
cache_previews(cache, cache_key, thumbnails, page_count) ==
    Put(cache, cache_key,
        [previews |-> [thumbnails |-> thumbnails, page_count |-> page_count],
         age |-> 0])

\* get_pdf_page_count of an unencrypted file
get_pdf_page_count(content) == content

(***************************************************************************)
(* app.py: the per-client session (a signed cookie)                        *)
(***************************************************************************)
\* SessionData(): no tracked files, countdown running for the full timeout
SessionData ==
    [processed_files |-> <<>>,
     processed_files_details |-> <<>>,
     file_times |-> EmptyFn,
     countdown |-> SESSION_TIMEOUT_MINUTES]

EmptySession == [session_id |-> <<>>, session_data |-> <<>>, preview_data |-> <<>>]

\* variant: the countdown is left as it is
update_countdown_kept(sd) == sd

\* the countdown restarted: end_time = time.time() + SESSION_TIMEOUT_SECONDS
\* (active is True in every countdown the program writes)
update_countdown(sd) == [sd EXCEPT !.countdown = SESSION_TIMEOUT_MINUTES]

\* ensure_session_id
ensure_session_id(c, sess) ==
    IF sess.session_id = <<>> THEN Uuid4(c) ELSE sess.session_id

\* initialize_session (before_request)
initialize_session(c, sess) ==
    [sess EXCEPT !.session_id = ensure_session_id(c, sess),
                 !.session_data = IF @ = <<>> THEN <<SessionData>> ELSE @]

(***************************************************************************)
(* utils/cleanup.py                                                        *)
(***************************************************************************)
\* folder_age = now - min(mtime, ctime)
FolderAge(d) == Max(d.m, d.c)

\* variant: the directory is matched by its "sess_" prefix only
manual_clear_any_session_folders(f, session_id) ==
    [cls \in Classes |->
        [loc \in Locs |->
            IF loc \in DirNames /\ f[cls][loc].exists THEN AbsentDir ELSE f[cls][loc]]]

\* manual_clear_session_folders: rmtree of the three sess_<id> directories
manual_clear_session_folders(f, session_id) ==
    [cls \in Classes |->
        [loc \in Locs |->
            IF loc = get_session_folder_path(cls, session_id)[2] /\ f[cls][loc].exists
            THEN AbsentDir ELSE f[cls][loc]]]

\* variant: a directory exactly max_age old is removed too
SweepsDirInclusive(d, max_age_minutes) == d.exists /\ FolderAge(d) >= max_age_minutes

\* variant: the age in seconds is compared with the limit taken as seconds
\* of a limit given in hours
SweepsDirSlip(d, max_age_minutes) == d.exists /\ FolderAge(d) > max_age_minutes * 60

\* does cleanup_old_sessions remove this directory
SweepsDir(d, max_age_minutes) == d.exists /\ FolderAge(d) > max_age_minutes

\* cleanup_old_sessions: every sess_* directory older than max_age_minutes
cleanup_old_sessions(f, max_age_minutes) ==
    [cls \in Classes |->
        [loc \in Locs |->
            IF loc \in DirNames /\ SweepsDir(f[cls][loc], max_age_minutes)
            THEN AbsentDir ELSE f[cls][loc]]]

\* the directories cleanup_old_sessions deletes (it logs their number,
\* folders_deleted)
SweptDirs(f, max_age_minutes) ==
    {<<cls, loc>> \in Classes \X DirNames : SweepsDir(f[cls][loc], max_age_minutes)}

\* cleanup_folder: the regular files directly in folder_path older than
\* max_age_minutes, of the given extensions
cleanup_folder(f, cls, max_age_minutes, extensions) ==
    [f EXCEPT ![cls][RootLoc].files =
        [b \in {x \in DOMAIN @ : ~(x.ext \in extensions /\ @[x].age > max_age_minutes)}
            |-> @[b]]]

AllExts == {"pdf", "jpg", "zip"}

\* cleanup_aged_files
cleanup_aged_files(f, upload_max, preview_max, processed_max) ==
    cleanup_old_sessions(
        cleanup_folder(
            cleanup_folder(
                cleanup_folder(f, "uploads", upload_max, {"pdf"}),
                "previews", preview_max, {"jpg"}),
            "processed", processed_max, AllExts),
        Max(processed_max, SWEEP_FLOOR_MINUTES))

(***************************************************************************)
(* utils/file_naming_utils.py: generate_file_names draws a random          *)
(* component; the generated name differs from every name in use            *)
(***************************************************************************)
StemsOnDisk(f, cls) == {b.stem : b \in UNION {DOMAIN f[cls][loc].files : loc \in Locs}}
PreviewDataOf(sess) == IF sess.preview_data = <<>> THEN {} ELSE {sess.preview_data[1]}
SessionDataOf(sess) == IF sess.session_data = <<>> THEN {} ELSE {sess.session_data[1]}

UsedUploadStems ==
    StemsOnDisk(fs, "uploads")
    \cup UNION {{p.base.stem : p \in Range(pd.temp_files)} :
                    pd \in UNION {PreviewDataOf(session[c]) : c \in Clients}}
UsedThumbStems ==
    StemsOnDisk(fs, "previews")
    \cup UNION {{t.stem : t \in Range(PREVIEW_CACHE[k].previews.thumbnails)} :
                    k \in DOMAIN PREVIEW_CACHE}
UsedProcessedStems ==
    StemsOnDisk(fs, "processed")
    \cup UNION {{n.stem : n \in Range(sd.processed_files)}
                  \cup {d.stored_name.stem : d \in Range(sd.processed_files_details)}
                  \cup {n.stem : n \in DOMAIN sd.file_times} :
                    sd \in UNION {SessionDataOf(session[c]) : c \in Clients}}

HasFresh(pool, used, n) == Cardinality(pool \ used) >= n
MinOf(S) == CHOOSE x \in S : \A y \in S : x <= y
RECURSIVE FreshStems(_, _, _)
FreshStems(pool, used, n) ==
    IF n = 0 THEN <<>>
    ELSE LET k == MinOf(pool \ used)
         IN <<k>> \o FreshStems(pool, used \cup {k}, n - 1)

generate_file_names(stem, ext) == [stem |-> stem, ext |-> ext]
StoredName(base) == [dir |-> ".", stem |-> base.stem, ext |-> base.ext]

(***************************************************************************)
(* The record of the last request and its response                         *)
(***************************************************************************)
NoLast ==
    [op |-> "init", client |-> 0, status |-> 0, previews |-> NoPreviews,
     computed |-> FALSE, evicted |-> FALSE, removed |-> 0, failed |-> {}, args |-> <<>>]
Resp(op, c, status) == [NoLast EXCEPT !.op = op, !.client = c, !.status = status]

NoProbe == [a |-> <<>>, b |-> <<>>, ca |-> "", cb |-> "", pa |-> <<>>, pb |-> <<>>]
NoWorkers == <<>>

\* the record of the last execute_tool call: its arguments, what the tool
\* function did on each input, and what execute_tool returned
NoResult == [status |-> "", output_files |-> <<>>, message |-> ""]
NoCall ==
    [tool_id |-> "", file_paths |-> <<>>, outcomes |-> <<>>, result |-> NoResult,
     calls |-> 0, raised |-> FALSE, errored |-> FALSE, propagated |-> FALSE, via |-> ""]

\* the clock of the process and the times at which execute_tool's body was
\* entered; the jobs of the scheduler of utils/cleanup.py
NoClock == [time |-> 0, starts |-> <<>>]
NoJobs == [running |-> FALSE, jobs |-> {}]

InitFs == [cls \in Classes |-> [loc \in Locs |-> IF loc = RootLoc THEN NewDir ELSE AbsentDir]]

Init ==
    /\ fs = InitFs
    /\ PREVIEW_CACHE = EmptyFn
    /\ session = [c \in Clients |-> EmptySession]
    /\ last = NoLast
    /\ probe = NoProbe
    /\ workers = NoWorkers
    /\ call = NoCall
    /\ last_time_called = 0
    /\ clock = NoClock
    /\ scheduler = NoJobs

(***************************************************************************)
(* The passage of time                                                     *)
(***************************************************************************)
\* the mtime of a file is read only in the processed class (process_tool,
\* download_page, cleanup_folder), so only there is its age kept
AgeFiles(cls, files) ==
    IF cls = "processed"
    THEN [b \in DOMAIN files |-> [files[b] EXCEPT !.age = Older(@, DirAgeCap)]]
    ELSE files
AgeDir(cls, loc, d) ==
    IF ~d.exists THEN d
    ELSE IF loc = RootLoc THEN [d EXCEPT !.files = AgeFiles(cls, @)]
    ELSE [d EXCEPT !.m = Older(@, DirAgeCap), !.c = Older(@, DirAgeCap),
                   !.files = AgeFiles(cls, @)]
AgeSession(sess) ==
    [sess EXCEPT !.session_data =
        IF @ = <<>> THEN @
        ELSE <<[@[1] EXCEPT
                  !.countdown = Max(0, @ - TimeStep),
                  !.file_times = [n \in DOMAIN @ |-> Older(@[n], DirAgeCap)]]>>]

\* the run dates of the pending jobs come nearer
AgeJobs(jobs) == {[j EXCEPT !.run_in = Max(0, @ - TimeStep)] : j \in jobs}

Tick ==
    /\ fs' = [cls \in Classes |-> [loc \in Locs |-> AgeDir(cls, loc, fs[cls][loc])]]
    /\ PREVIEW_CACHE' = [k \in DOMAIN PREVIEW_CACHE |->
                            [PREVIEW_CACHE[k] EXCEPT !.age = Older(@, CacheAgeCap)]]
    /\ session' = [c \in Clients |-> AgeSession(session[c])]
    /\ scheduler' = [scheduler EXCEPT !.jobs = AgeJobs(@)]
    /\ last' = NoLast
    /\ UNCHANGED <<probe, workers, call, last_time_called, clock>>

(***************************************************************************)
(* app.py: run_cleanup, the job the scheduler fires every 10 minutes       *)
(***************************************************************************)
RunCleanup ==
    /\ fs' = cleanup_aged_files(fs, UPLOAD_FILE_RETENTION_MINUTES,
                                 PREVIEW_FILE_RETENTION_MINUTES,
                                 PROCESSED_FILE_RETENTION_MINUTES)
    /\ last' = [Resp("run_cleanup", 0, 0) EXCEPT
                    !.removed = Cardinality(SweptDirs(fs,
                                    Max(PROCESSED_FILE_RETENTION_MINUTES, SWEEP_FLOOR_MINUTES)))]
    /\ UNCHANGED <<PREVIEW_CACHE, session, probe, workers, call, last_time_called, clock, scheduler>>

(***************************************************************************)
(* app.py: tool_preview (one uploaded file per request)                    *)
(***************************************************************************)
\* generate_preview_thumbnails: one jpg per page, written to preview_folder
RECURSIVE WriteThumbs(_, _, _)
WriteThumbs(f, folder, stems) ==
    IF stems = <<>> THEN f
    ELSE WriteThumbs(
            WriteFile(f, [cls |-> folder[1], loc |-> folder[2],
                          base |-> generate_file_names(Head(stems), "jpg")],
                      [age |-> 0, content |-> 0]),
            folder, Tail(stems))

ThumbNames(stems) == [i \in DOMAIN stems |-> generate_file_names(stems[i], "jpg")]

ToolPreview(c, tool_id, content, password) ==
    LET s0 == initialize_session(c, session[c])
        session_id == s0.session_id
        upload_folder == get_session_folder("uploads", session_id)
        stored == generate_file_names(MinOf(Reserved(c, NumUploadStems) \ UsedUploadStems), "pdf")
        file_path == [cls |-> "uploads", loc |-> upload_folder[2], base |-> stored]
        f1 == WriteFile(MakeDirs(fs, upload_folder), file_path,
                        [age |-> 0, content |-> content])
        cache_key == CacheKey(content, password)
        cached == get_cached_previews(PREVIEW_CACHE, cache_key)
        page_count == get_pdf_page_count(content)
        skip_preview == tool_id = "unlock"
        previews_folder == get_session_folder("previews", session_id)
        stems == FreshStems(Reserved(c, NumThumbStems), UsedThumbStems, page_count)
        thumbs == IF cached.hit THEN cached.previews.thumbnails
                  ELSE IF skip_preview THEN [i \in 1..page_count |-> PlaceholderName]
                  ELSE ThumbNames(stems)
        pages == IF cached.hit THEN cached.previews.page_count ELSE page_count
        f2 == IF cached.hit \/ skip_preview THEN f1
              ELSE WriteThumbs(MakeDirs(f1, previews_folder), previews_folder, stems)
        preview_data == [temp_files |-> <<file_path>>, cache_keys |-> <<cache_key>>,
                         files |-> <<[stored_name |-> file_path.base]>>]
    IN  /\ HasFresh(Reserved(c, NumUploadStems), UsedUploadStems, 1)
        /\ cached.hit \/ skip_preview \/ HasFresh(Reserved(c, NumThumbStems), UsedThumbStems, page_count)
        /\ fs' = f2
        /\ PREVIEW_CACHE' = IF cached.hit THEN cached.cache
                            ELSE cache_previews(cached.cache, cache_key, thumbs, pages)
        /\ session' = [session EXCEPT ![c] = [s0 EXCEPT !.preview_data = <<preview_data>>]]
        /\ last' = [Resp("tool_preview", c, 200) EXCEPT
                        !.previews = [thumbnails |-> thumbs, page_count |-> pages],
                        !.computed = ~cached.hit,
                        !.evicted = cached.cache # PREVIEW_CACHE]
        /\ UNCHANGED <<probe, workers, call, last_time_called, clock, scheduler>>

(***************************************************************************)
(* app.py: process_tool                                                    *)
(***************************************************************************)
\* the display name process_tool derives for an output "<tool>_<hex>_<ts>.<ext>":
\* the parts after the second "_", i.e. only "<ts>.<ext>"
DisplayNameOf(filename) == [dir |-> ".", stem |-> 0, ext |-> filename.ext]

\* generic_tools.execute_tool: a successful run writes one output file into
\* the session's processed directory; the uploaded inputs are kept
\* (cleanup_temp_files is called with keep_uploaded=True)
execute_tool(f, folder, stem, ok) ==
    IF ok
    THEN WriteFile(MakeDirs(f, folder),
                   [cls |-> folder[1], loc |-> folder[2],
                    base |-> generate_file_names(stem, "pdf")],
                   [age |-> 0, content |-> 0])
    ELSE f

\* which new files process_tool tracks: a zip only for pdf-to-jpg
FilesToTrack(new_files, tool_id) ==
    {b \in new_files : b.ext # "zip" \/ tool_id = "pdf-to-jpg"}

\* the tracking loop of process_tool over files_to_track
RECURSIVE TrackFiles(_, _, _, _)
TrackFiles(sd, todo, f, folder) ==
    IF todo = {} THEN sd
    ELSE LET b == CHOOSE x \in todo : TRUE
             filename == StoredName(b)
             isNew == filename \notin Range(sd.processed_files)
             sd1 == IF isNew
                    THEN [sd EXCEPT
                            !.processed_files = Append(@, filename),
                            !.processed_files_details =
                                Append(@, [stored_name |-> filename,
                                           display_name |-> DisplayNameOf(filename)])]
                    ELSE sd
             file_path == JoinPath(folder, filename)
             sd2 == IF PathExists(f, file_path)
                    THEN [sd1 EXCEPT !.file_times =
                            Put(@, filename, f[file_path.cls][file_path.loc].files[file_path.base].age)]
                    ELSE sd1
         IN TrackFiles(sd2, todo \ {b}, f, folder)

\* variant: the cache keys of the request are left in the cache
DropKeysNone(cache, keys) == cache

\* the deletion of the request's cache keys at the end of process_tool
RECURSIVE DropKeys(_, _)
DropKeys(cache, keys) ==
    IF keys = <<>> THEN cache
    ELSE DropKeys(IF Head(keys) \in DOMAIN cache THEN Drop(cache, Head(keys)) ELSE cache,
                  Tail(keys))

ProcessTool(c, tool_id, ok) ==
    LET s0 == initialize_session(c, session[c])
        session_folder == get_session_folder("processed", s0.session_id)
    IN  /\ last' = Resp("process_tool", c,
                        IF s0.preview_data = <<>> THEN 400
                        ELSE IF \E p \in Range(s0.preview_data[1].temp_files) : ~PathExists(fs, p)
                        THEN 400
                        ELSE IF ok THEN 302 ELSE 400)
        /\ IF s0.preview_data = <<>>
              \/ \E p \in Range(s0.preview_data[1].temp_files) : ~PathExists(fs, p)
           THEN /\ fs' = fs
                /\ session' = [session EXCEPT ![c] = s0]
                /\ UNCHANGED PREVIEW_CACHE
           ELSE LET f1 == MakeDirs(fs, session_folder)
                    existing_files == ListDir(f1, session_folder)
                    f2 == execute_tool(f1, session_folder,
                                       MinOf(Reserved(c, NumStems) \ UsedProcessedStems), ok)
                    new_files == ListDir(f2, session_folder) \ existing_files
                    sd == TrackFiles(s0.session_data[1], FilesToTrack(new_files, tool_id),
                                     f2, session_folder)
                IN  /\ ok => /\ HasFresh(Reserved(c, NumStems), UsedProcessedStems, 1)
                             /\ Len(s0.session_data[1].processed_files) < MaxTracked
                    /\ fs' = f2
                    /\ IF ok
                       THEN /\ PREVIEW_CACHE' = DropKeys(PREVIEW_CACHE, s0.preview_data[1].cache_keys)
                            /\ session' = [session EXCEPT ![c] =
                                  [s0 EXCEPT !.preview_data = <<>>,
                                             !.session_data = <<update_countdown(sd)>>]]
                       ELSE /\ session' = [session EXCEPT ![c] = s0]
                            /\ UNCHANGED PREVIEW_CACHE
        /\ UNCHANGED <<probe, workers, call, last_time_called, clock, scheduler>>

(***************************************************************************)
(* app.py: download_page (the listing, which reconciles with the disk)     *)
(***************************************************************************)
\* the re-validation loop: the tracked details whose file is on disk
valid_processed_files_details(f, session_folder, details) ==
    LET IsValid(d) == PathExists(f, JoinPath(session_folder, d.stored_name))
    IN  SelectSeq(details, IsValid)

\* file_times after the loop: a valid entry without a time takes the mtime
backfilled_file_times(f, session_folder, valid, file_times) ==
    LET validNames == {valid[i].stored_name : i \in DOMAIN valid}
    IN  [n \in (DOMAIN file_times) \cup validNames |->
            IF n \in DOMAIN file_times THEN file_times[n]
            ELSE LET p == JoinPath(session_folder, n)
                 IN f[p.cls][p.loc].files[p.base].age]

\* the files handed to the template: name, time and bytes of each valid entry
processed_files(f, session_folder, sd) ==
    LET valid == valid_processed_files_details(f, session_folder, sd.processed_files_details)
        times == backfilled_file_times(f, session_folder, valid, sd.file_times)
    IN  [i \in DOMAIN valid |->
            LET p == JoinPath(session_folder, valid[i].stored_name)
            IN [name |-> valid[i].stored_name,
                display_name |-> valid[i].display_name,
                time |-> times[valid[i].stored_name],
                content |-> f[p.cls][p.loc].files[p.base].content]]

DownloadPage(c) ==
    LET s0 == initialize_session(c, session[c])
        sd == s0.session_data[1]
        session_folder == get_session_folder("processed", s0.session_id)
        f1 == MakeDirs(fs, session_folder)
        valid == valid_processed_files_details(f1, session_folder, sd.processed_files_details)
        times == backfilled_file_times(f1, session_folder, valid, sd.file_times)
    IN  /\ fs' = f1
        /\ session' = [session EXCEPT ![c] =
              [s0 EXCEPT !.session_data =
                 <<[sd EXCEPT !.processed_files = [i \in DOMAIN valid |-> valid[i].stored_name],
                              !.processed_files_details = valid,
                              !.file_times = times]>>]]
        /\ last' = Resp("download_page", c, 200)
        /\ UNCHANGED <<PREVIEW_CACHE, probe, workers, call, last_time_called, clock, scheduler>>

(***************************************************************************)
(* app.py: rename_file.  filename comes from the URL path (no "/" in it);  *)
(* new_name comes from the JSON body and is used as given                  *)
(***************************************************************************)
TrackStems == 1..(NumTrackClients * NumStems)
UrlNames == {[dir |-> ".", stem |-> k, ext |-> e] : k \in TrackStems, e \in {"pdf"}}
\* a new_name may carry a directory part: "../" or a directory that does not
\* exist under the session folder
NoSuchDir == "nosuchdir"
NewNames == {[dir |-> d, stem |-> k] : d \in {".", "..", NoSuchDir}, k \in TrackStems}

\* list.index / in-place replacement of the first occurrence
ReplaceFirst(seq, old, new) ==
    IF old \in Range(seq)
    THEN LET idx == MinOf({i \in DOMAIN seq : seq[i] = old})
         IN [seq EXCEPT ![idx] = new]
    ELSE seq
ReplaceFirstDetail(seq, old, new) ==
    IF \E i \in DOMAIN seq : seq[i].stored_name = old
    THEN LET idx == MinOf({i \in DOMAIN seq : seq[i].stored_name = old})
         IN [seq EXCEPT ![idx] = [stored_name |-> new, display_name |-> new]]
    ELSE seq

RenameFile(c, filename, new_name) ==
    LET s0 == initialize_session(c, session[c])
        sd == s0.session_data[1]
        new_stored_name == [dir |-> new_name.dir, stem |-> new_name.stem, ext |-> filename.ext]
        session_folder == get_session_folder("processed", s0.session_id)
        f1 == MakeDirs(fs, session_folder)
        old_path == JoinPath(session_folder, filename)
        new_path == JoinPath(session_folder, new_stored_name)
        times == IF filename \in DOMAIN sd.file_times
                 THEN Put(Drop(sd.file_times, filename), new_stored_name, sd.file_times[filename])
                 ELSE sd.file_times
    IN  /\ IF ~PathExists(f1, old_path)
           THEN /\ fs' = f1
                /\ session' = [session EXCEPT ![c] = s0]
                /\ last' = Resp("rename_file", c, 404)
           ELSE IF new_name.dir # NoSuchDir /\ PathExists(f1, new_path)
           THEN /\ fs' = f1
                /\ session' = [session EXCEPT ![c] = s0]
                /\ last' = Resp("rename_file", c, 400)
           ELSE IF new_name.dir = NoSuchDir
           THEN \* os.rename raises FileNotFoundError: the outer except answers
                /\ fs' = f1
                /\ session' = [session EXCEPT ![c] = s0]
                /\ last' = Resp("rename_file", c, 500)
           ELSE /\ fs' = RenamePath(f1, old_path, new_path)
                /\ session' = [session EXCEPT ![c] =
                      [s0 EXCEPT !.session_data =
                         <<[sd EXCEPT
                              !.processed_files = ReplaceFirst(@, filename, new_stored_name),
                              !.file_times = times,
                              !.processed_files_details =
                                  ReplaceFirstDetail(@, filename, new_stored_name)]>>]]
                /\ last' = Resp("rename_file", c, 200)
        /\ UNCHANGED <<PREVIEW_CACHE, probe, workers, call, last_time_called, clock, scheduler>>

(***************************************************************************)
(* app.py: cleanup_single_file                                             *)
(***************************************************************************)
\* list.remove: the first occurrence
RemoveFirst(seq, x) ==
    IF x \in Range(seq)
    THEN LET idx == MinOf({i \in DOMAIN seq : seq[i] = x})
         IN SubSeq(seq, 1, idx - 1) \o SubSeq(seq, idx + 1, Len(seq))
    ELSE seq

CleanupSingleFile(c, filename) ==
    LET s0 == initialize_session(c, session[c])
        sd == s0.session_data[1]
        session_folder == get_session_folder("processed", s0.session_id)
        f1 == MakeDirs(fs, session_folder)
        file_path == JoinPath(session_folder, filename)
        Other(d) == d.stored_name # filename
    IN  /\ IF ~PathExists(f1, file_path)
           THEN /\ fs' = f1
                /\ session' = [session EXCEPT ![c] = s0]
                /\ last' = Resp("cleanup_single_file", c, 404)
           ELSE /\ fs' = RemoveFile(f1, file_path)
                /\ session' = [session EXCEPT ![c] =
                      [s0 EXCEPT !.session_data =
                         <<[sd EXCEPT
                              !.processed_files = RemoveFirst(@, filename),
                              !.file_times = IF filename \in DOMAIN @ THEN Drop(@, filename) ELSE @,
                              !.processed_files_details = SelectSeq(@, Other)]>>]]
                /\ last' = Resp("cleanup_single_file", c, 200)
        /\ UNCHANGED <<PREVIEW_CACHE, probe, workers, call, last_time_called, clock, scheduler>>

(***************************************************************************)
(* app.py: cleanup_session (/cleanup) and clear_session (/clear)           *)
(***************************************************************************)
CleanupSession(c, cleanup_type) ==
    LET s0 == initialize_session(c, session[c])
        session_folder == get_session_folder("processed", s0.session_id)
    IN  /\ IF cleanup_type = "all"
           THEN /\ fs' = manual_clear_session_folders(fs, s0.session_id)
                /\ session' = [session EXCEPT ![c] =
                      [s0 EXCEPT !.preview_data = <<>>, !.session_data = <<SessionData>>]]
           ELSE /\ fs' = MakeDirs(RmTree(fs, session_folder), session_folder)
                /\ session' = [session EXCEPT ![c] =
                      [s0 EXCEPT !.session_data =
                         <<[@[1] EXCEPT !.processed_files = <<>>,
                                        !.file_times = EmptyFn,
                                        !.processed_files_details = <<>>]>>]]
        /\ last' = Resp("cleanup_session", c, 200)
        /\ UNCHANGED <<PREVIEW_CACHE, probe, workers, call, last_time_called, clock, scheduler>>

ClearSession(c) ==
    LET s0 == initialize_session(c, session[c])
    IN  /\ fs' = manual_clear_session_folders(fs, s0.session_id)
        /\ session' = [session EXCEPT ![c] =
              [s0 EXCEPT !.preview_data = <<>>, !.session_data = <<SessionData>>]]
        /\ last' = Resp("clear_session", c, 200)
        /\ UNCHANGED <<PREVIEW_CACHE, probe, workers, call, last_time_called, clock, scheduler>>

Request(c) ==
    \/ \E t \in ToolIds, k \in Contents, pw \in Passwords : ToolPreview(c, t, k, pw)
    \/ \E t \in ToolIds, ok \in BOOLEAN : ProcessTool(c, t, ok)
    \/ DownloadPage(c)
    \/ \E n \in UrlNames, nn \in NewNames : RenameFile(c, n, nn)
    \/ \E n \in UrlNames : CleanupSingleFile(c, n)
    \/ \E ty \in {"all", "processed"} : CleanupSession(c, ty)
    \/ ClearSession(c)

Next ==
    \/ Tick
    \/ RunCleanup
    \/ \E c \in Clients : Request(c)

Spec == Init /\ [][Next]_vars

RequestLife(c) ==
    \/ \E t \in ToolIds, k \in Contents, pw \in Passwords : ToolPreview(c, t, k, pw)
    \/ \E ok \in BOOLEAN : ProcessTool(c, "rotate", ok)
    \/ CleanupSession(c, "all")
    \/ ClearSession(c)

NextLife ==
    \/ Tick
    \/ RunCleanup
    \/ \E c \in Clients : RequestLife(c)
SpecLife == Init /\ [][NextLife]_vars

\* the requests that create the directories of a session
RequestStore(c) ==
    \/ \E k \in Contents, pw \in Passwords : ToolPreview(c, "rotate", k, pw)
    \/ ProcessTool(c, "rotate", TRUE)
    \/ ClearSession(c)

NextStore ==
    \/ Tick
    \/ RunCleanup
    \/ \E c \in Clients : RequestStore(c)

\* time passes, and the scheduler fires run_cleanup every 10 minutes
FairStore == Init /\ [][NextStore]_vars /\ WF_vars(Tick) /\ WF_vars(RunCleanup)

NextTrack ==
    \/ Tick
    \/ RunCleanup
    \/ \E c \in TrackClients :
          \/ \E k \in Contents, pw \in Passwords : ToolPreview(c, "unlock", k, pw)
          \/ \E ok \in BOOLEAN : ProcessTool(c, "unlock", ok)
          \/ DownloadPage(c)
          \/ \E n \in UrlNames, nn \in NewNames : RenameFile(c, n, nn)
          \/ \E n \in UrlNames : CleanupSingleFile(c, n)
          \/ \E ty \in {"all", "processed"} : CleanupSession(c, ty)
          \/ ClearSession(c)
SpecTrack == Init /\ [][NextTrack]_vars

(***************************************************************************)
(* The preview cache under concurrent request threads and the sweep of the *)
(* cache.  A worker runs one call; a step is one access of the shared      *)
(* dict (a membership test, a lookup, a del, a store, one scan), between   *)
(* which the interpreter may switch threads.                               *)
(***************************************************************************)
WorkerIds == 1..MaxWorkers
CacheKeys == {CacheKey(k, pw) : k \in Contents, pw \in Passwords}
CacheOps ==
    {"get_cached_previews", "process_tool", "cleanup_expired_preview_cache",
     "cache_previews"}
Idle == [op |-> "idle", pc |-> "idle", key |-> <<>>, expired |-> <<>>, result |-> "none"]
FirstPc(op) ==
    CASE op = "get_cached_previews" -> "test"
      [] op = "process_tool" -> "test"
      [] op = "cleanup_expired_preview_cache" -> "scan"
      [] op = "cache_previews" -> "store"

\* a set as a list, in the order of iteration
RECURSIVE SeqOf(_)
SeqOf(S) == IF S = {} THEN <<>> ELSE LET x == CHOOSE y \in S : TRUE IN <<x>> \o SeqOf(S \ {x})

InitRace ==
    /\ fs = InitFs
    /\ PREVIEW_CACHE = EmptyFn
    /\ session = [c \in Clients |-> EmptySession]
    /\ last = NoLast
    /\ probe = NoProbe
    /\ workers = [w \in WorkerIds |-> Idle]
    /\ call = NoCall
    /\ last_time_called = 0
    /\ clock = NoClock
    /\ scheduler = NoJobs

Done(w, result) == workers' = [workers EXCEPT ![w].pc = "done", ![w].result = result]
Goto(w, pc) == workers' = [workers EXCEPT ![w].pc = pc]

\* a thread enters one of the functions that access PREVIEW_CACHE
Call(w, op, key) ==
    /\ workers[w].pc = "idle"
    /\ workers' = [workers EXCEPT ![w] = [Idle EXCEPT !.op = op, !.pc = FirstPc(op), !.key = key]]
    /\ UNCHANGED <<fs, PREVIEW_CACHE, session, last, probe, call, last_time_called, clock, scheduler>>

\* if cache_key in PREVIEW_CACHE  /  if key in PREVIEW_CACHE
TestKey(w) ==
    /\ workers[w].pc = "test"
    /\ IF workers[w].key \in DOMAIN PREVIEW_CACHE
       THEN Goto(w, IF workers[w].op = "get_cached_previews" THEN "lookup" ELSE "del")
       ELSE Done(w, "absent")
    /\ UNCHANGED <<fs, PREVIEW_CACHE, session, last, probe, call, last_time_called, clock, scheduler>>

\* cache_entry = PREVIEW_CACHE[cache_key], then the comparison with CACHE_EXPIRY
LookupKey(w) ==
    /\ workers[w].pc = "lookup"
    /\ IF workers[w].key \notin DOMAIN PREVIEW_CACHE THEN Done(w, "KeyError")
       ELSE IF PREVIEW_CACHE[workers[w].key].age < CACHE_EXPIRY_MINUTES THEN Done(w, "entry")
       ELSE Goto(w, "del")
    /\ UNCHANGED <<fs, PREVIEW_CACHE, session, last, probe, call, last_time_called, clock, scheduler>>

\* del PREVIEW_CACHE[key]
DelKey(w) ==
    /\ workers[w].pc = "del"
    /\ IF workers[w].key \in DOMAIN PREVIEW_CACHE
       THEN /\ PREVIEW_CACHE' = Drop(PREVIEW_CACHE, workers[w].key)
            /\ Done(w, "absent")
       ELSE /\ Done(w, "KeyError")
            /\ UNCHANGED PREVIEW_CACHE
    /\ UNCHANGED <<fs, session, last, probe, call, last_time_called, clock, scheduler>>

\* expired_keys = [key for key, entry in PREVIEW_CACHE.items() if ... > CACHE_EXPIRY]
ScanExpired(w) ==
    /\ workers[w].pc = "scan"
    /\ LET expired == SeqOf({k \in DOMAIN PREVIEW_CACHE :
                                 PREVIEW_CACHE[k].age > CACHE_EXPIRY_MINUTES})
       IN IF expired = <<>> THEN Done(w, "absent")
          ELSE workers' = [workers EXCEPT ![w].pc = "sweep", ![w].expired = expired]
    /\ UNCHANGED <<fs, PREVIEW_CACHE, session, last, probe, call, last_time_called, clock, scheduler>>

\* for key in expired_keys: del PREVIEW_CACHE[key]
DelExpired(w) ==
    /\ workers[w].pc = "sweep"
    /\ LET key == Head(workers[w].expired)
       IN IF key \in DOMAIN PREVIEW_CACHE
          THEN /\ PREVIEW_CACHE' = Drop(PREVIEW_CACHE, key)
               /\ IF Tail(workers[w].expired) = <<>> THEN Done(w, "absent")
                  ELSE workers' = [workers EXCEPT ![w].expired = Tail(@)]
          ELSE /\ Done(w, "KeyError")
               /\ UNCHANGED PREVIEW_CACHE
    /\ UNCHANGED <<fs, session, last, probe, call, last_time_called, clock, scheduler>>

\* PREVIEW_CACHE[cache_key] = {...}
StoreKey(w) ==
    /\ workers[w].pc = "store"
    /\ PREVIEW_CACHE' = cache_previews(PREVIEW_CACHE, workers[w].key,
                                        [i \in 1..get_pdf_page_count(workers[w].key[1])
                                            |-> PlaceholderName],
                                        get_pdf_page_count(workers[w].key[1]))
    /\ Done(w, "stored")
    /\ UNCHANGED <<fs, session, last, probe, call, last_time_called, clock, scheduler>>

\* the call returns (or its exception has propagated)
Return(w) ==
    /\ workers[w].pc = "done"
    /\ workers' = [workers EXCEPT ![w] = Idle]
    /\ UNCHANGED <<fs, PREVIEW_CACHE, session, last, probe, call, last_time_called, clock, scheduler>>

\* time passes for the cache entries
TickCache ==
    /\ PREVIEW_CACHE' = [k \in DOMAIN PREVIEW_CACHE |->
                            [PREVIEW_CACHE[k] EXCEPT !.age = Older(@, CacheAgeCap)]]
    /\ UNCHANGED <<fs, session, last, probe, workers, call, last_time_called, clock, scheduler>>

NextRace ==
    \/ TickCache
    \/ \E w \in WorkerIds :
          \/ \E op \in CacheOps, key \in CacheKeys : Call(w, op, key)
          \/ TestKey(w)
          \/ LookupKey(w)
          \/ DelKey(w)
          \/ ScanExpired(w)
          \/ DelExpired(w)
          \/ StoreKey(w)
          \/ Return(w)
SpecRace == InitRace /\ [][NextRace]_vars

\* C7: whatever the interleaving of workers that call get_cached_previews
\* for the same key, delete it in process_tool or sweep it in
\* cleanup_expired_preview_cache, every call ends with an entry or absent
\* and none raises
C7_NoCallerRaises ==
    \A w \in WorkerIds :
        workers[w].pc = "done" => workers[w].result \in {"entry", "absent", "stored"}

(***************************************************************************)
(* get_session_folder as a function of the class root and the session id:  *)
(* the two calls of a probe are applied to every pair of ids and classes    *)
(***************************************************************************)
Probes ==
    {[a |-> a, b |-> b, ca |-> ca, cb |-> cb, pa |-> <<>>, pb |-> <<>>] :
        a \in AllIds, b \in AllIds, ca \in Classes, cb \in Classes}

InitPath ==
    /\ fs = InitFs
    /\ PREVIEW_CACHE = EmptyFn
    /\ session = [c \in Clients |-> EmptySession]
    /\ last = NoLast
    /\ probe \in Probes
    /\ workers = NoWorkers
    /\ call = NoCall
    /\ last_time_called = 0
    /\ clock = NoClock
    /\ scheduler = NoJobs

GetSessionFolder ==
    /\ probe.pa = <<>>
    /\ probe' = [probe EXCEPT
                    !.pa = PathString(get_session_folder(probe.ca, probe.a)),
                    !.pb = PathString(get_session_folder(probe.cb, probe.b))]
    /\ UNCHANGED <<fs, PREVIEW_CACHE, session, last, workers, call, last_time_called, clock, scheduler>>

NextPath == GetSessionFolder
SpecPath == InitPath /\ [][NextPath]_vars

\* one directory is the other or one of its ancestors (component-wise)
Contains(p, q) == IsPrefix(SplitPath(p), SplitPath(q))

\* C1: for distinct session ids the directories returned by
\* get_session_folder differ, whatever the classes neither path is a prefix
\* of the other nor a directory containing the other, and the directory of
\* a session is <class root>/sess_<id>
C1_DistinctFolders ==
    probe.pa # <<>> =>
        /\ probe.pa = <<probe.ca, "/", "sess_">> \o probe.a
        /\ probe.pb = <<probe.cb, "/", "sess_">> \o probe.b
        /\ probe.a # probe.b =>
              /\ probe.pa # probe.pb
              /\ ~IsPrefix(probe.pa, probe.pb) /\ ~IsPrefix(probe.pb, probe.pa)
              /\ ~Contains(probe.pa, probe.pb) /\ ~Contains(probe.pb, probe.pa)

C1_Witness ==
    /\ probe.pa # <<>>
    /\ probe.a # probe.b
    /\ probe.ca = probe.cb
    /\ probe.a[1] = probe.b[1]

(***************************************************************************)
(* Explicit clear                                                          *)
(***************************************************************************)
\* the directory name a client's session id maps to, once it has an id
OwnLoc(c) == SessDirName(Uuid4(c))

\* C2: an explicit clear of a session (/cleanup with type "all", /clear)
\* removes the sess_<id> directories of that session under the three roots
\* and nothing else: the class roots, every directory and file of any other
\* session and the other sessions' tracked metadata are unchanged
C2_ClearFrame ==
    [][\A c \in Clients :
          (CleanupSession(c, "all") \/ ClearSession(c)) =>
              /\ \A cls \in Classes :
                    /\ ~fs'[cls][OwnLoc(c)].exists
                    /\ \A loc \in Locs \ {OwnLoc(c)} : fs'[cls][loc] = fs[cls][loc]
              /\ \A b \in Clients \ {c} : session'[b] = session[b]]_vars

\* a clear has just run while another session holds directories with files
\* and tracked processed files
C2_Witness ==
    /\ last.op \in {"cleanup_session", "clear_session"}
    /\ \E b \in Clients \ {last.client} :
          /\ session[b].session_data # <<>>
          /\ session[b].session_data[1].processed_files # <<>>
          /\ \A cls \in {"uploads", "processed"} :
                /\ fs[cls][OwnLoc(b)].exists
                /\ DOMAIN fs[cls][OwnLoc(b)].files # {}

(***************************************************************************)
(* Reclamation of a silent session's storage                               *)
(***************************************************************************)
NoDirs(c) == \A cls \in Classes : ~fs[cls][OwnLoc(c)].exists

\* C3: once a session stops issuing requests, and the periodic job keeps
\* firing, eventually none of the three roots contains a directory of the
\* session: either the session issues requests again and again, or from
\* some point on it has no directory
C3_Reclaimed ==
    \A c \in Clients : []<><<RequestStore(c)>>_vars \/ <>[]NoDirs(c)

\* the periodic job has just removed directories and a session that had
\* been given an id has no directory left
C3_Witness ==
    /\ last.op = "run_cleanup"
    /\ last.removed > 0
    /\ \E c \in Clients : session[c].session_id # <<>> /\ NoDirs(c)

(***************************************************************************)
(* The preview cache                                                       *)
(***************************************************************************)
\* C4: get_cached_previews never returns an entry that was put a full
\* CACHE_EXPIRY (30 minutes) or more ago, whether or not anything swept the
\* cache in between: it returns None and the key is gone from the cache;
\* a preview request that met such an entry computed its previews
C4_NoStaleHit ==
    /\ \A k \in DOMAIN PREVIEW_CACHE :
          PREVIEW_CACHE[k].age >= CACHE_EXPIRY_MINUTES =>
              /\ ~get_cached_previews(PREVIEW_CACHE, k).hit
              /\ get_cached_previews(PREVIEW_CACHE, k).previews = NoPreviews
              /\ k \notin DOMAIN get_cached_previews(PREVIEW_CACHE, k).cache
    /\ last.evicted => last.computed

\* a preview request has just met an expired entry and evicted it
C4_Witness == last.op = "tool_preview" /\ last.evicted

\* C5: a preview request for content and password whose entry was cached
\* less than CACHE_EXPIRY ago and is still in the cache computes nothing
\* (no page count, no thumbnails): it is answered with the thumbnails and
\* the page count of the entry, which stays as it is
C5_SecondFromCache ==
    [][\A c \in Clients, t \in ToolIds, k \in Contents, pw \in Passwords :
          (/\ ToolPreview(c, t, k, pw)
           /\ CacheKey(k, pw) \in DOMAIN PREVIEW_CACHE
           /\ PREVIEW_CACHE[CacheKey(k, pw)].age < CACHE_EXPIRY_MINUTES)
          => /\ ~last'.computed
             /\ last'.previews = PREVIEW_CACHE[CacheKey(k, pw)].previews
             /\ PREVIEW_CACHE' = PREVIEW_CACHE
             /\ \A cls \in Classes \ {"uploads"} : fs'[cls] = fs[cls]]_vars

\* a preview request has just been answered from the cache
C5_Witness ==
    /\ last.op = "tool_preview"
    /\ ~last.computed
    /\ last.previews.page_count > 0
    /\ \E k \in DOMAIN PREVIEW_CACHE : PREVIEW_CACHE[k].previews = last.previews

\* C6: every thumbnail name other than the placeholder that a preview
\* request returns names a file in the previews directory of the
\* requesting session at response time
C6_ThumbnailsExist ==
    last.op = "tool_preview" =>
        \A i \in DOMAIN last.previews.thumbnails :
            last.previews.thumbnails[i] # PlaceholderName =>
                PathExists(fs, [cls |-> "previews", loc |-> OwnLoc(last.client),
                                base |-> last.previews.thumbnails[i]])

(***************************************************************************)
(* The sweep of session directories                                        *)
(***************************************************************************)
SweepMaxAge == Max(PROCESSED_FILE_RETENTION_MINUTES, SWEEP_FLOOR_MINUTES)

\* C8: a sweep removes exactly the session directories whose age, taken
\* from the older of mtime and ctime, is greater than max_age and leaves
\* every other one and its contents as they were; a second sweep right
\* after it removes nothing
C8_SweepExact ==
    [][RunCleanup =>
          /\ \A cls \in Classes, loc \in DirNames :
                IF fs[cls][loc].exists
                   /\ (fs[cls][loc].m > SweepMaxAge \/ fs[cls][loc].c > SweepMaxAge)
                THEN ~fs'[cls][loc].exists
                ELSE fs'[cls][loc] = fs[cls][loc]
          /\ last'.removed =
                Cardinality({x \in Classes \X DirNames :
                                /\ fs[x[1]][x[2]].exists
                                /\ (fs[x[1]][x[2]].m > SweepMaxAge
                                      \/ fs[x[1]][x[2]].c > SweepMaxAge)})
          /\ cleanup_old_sessions(fs', SweepMaxAge) = fs'
          /\ SweptDirs(fs', SweepMaxAge) = {}]_vars

\* a sweep has just removed some directories and left others, one of them
\* exactly max_age old
C8_Witness ==
    /\ last.op = "run_cleanup"
    /\ last.removed > 0
    /\ \E cls \in Classes, loc \in DirNames :
          fs[cls][loc].exists /\ DOMAIN fs[cls][loc].files # {}
          /\ FolderAge(fs[cls][loc]) = SweepMaxAge

(***************************************************************************)
(* The tracked processed files of a session                                *)
(***************************************************************************)
TrackedNames(c) ==
    IF session[c].session_data = <<>> THEN <<>>
    ELSE session[c].session_data[1].processed_files
TrackedDetails(c) ==
    IF session[c].session_data = <<>> THEN <<>>
    ELSE session[c].session_data[1].processed_files_details

\* C9: in every reachable state no two tracked processed files of a session
\* have the same stored_name
C9_UniqueStoredNames ==
    \A c \in Clients :
        /\ \A i, j \in DOMAIN TrackedNames(c) :
              i # j => TrackedNames(c)[i] # TrackedNames(c)[j]
        /\ \A i, j \in DOMAIN TrackedDetails(c) :
              i # j => TrackedDetails(c)[i].stored_name # TrackedDetails(c)[j].stored_name

\* every tracked name of every session joins to a path directly inside the
\* processed directory of that session
TrackedInside ==
    \A c \in Clients :
        /\ \A i \in DOMAIN TrackedNames(c) :
              JoinPath(get_session_folder("processed", Uuid4(c)), TrackedNames(c)[i]).loc
                  = OwnLoc(c)
        /\ \A i \in DOMAIN TrackedDetails(c) :
              JoinPath(get_session_folder("processed", Uuid4(c)),
                       TrackedDetails(c)[i].stored_name).loc = OwnLoc(c)

\* C10: every tracked file of a session refers to a path directly inside
\* the processed directory of the session, and no request of a session
\* creates, moves, overwrites or deletes a file outside the sess_<id>
\* directories of that session
C10_OwnFilesOnly ==
    [][/\ TrackedInside'
       /\ last'.client \in Clients =>
             \A cls \in Classes, loc \in Locs \ {OwnLoc(last'.client)} :
                 fs'[cls][loc].files = fs[cls][loc].files]_vars


(***************************************************************************)
(* Rename followed by a listing                                            *)
(***************************************************************************)
\* the listing a download page would show for client c on disk f, cookie s
ListingOf(f, s, c) ==
    LET s0 == initialize_session(c, s)
    IN  processed_files(f, get_session_folder("processed", s0.session_id), s0.session_data[1])

\* C11: after a successful rename of a listed processed file from its old
\* stored name to a new stem, the next listing shows an entry named new stem
\* + the original extension with the bytes and the recorded time the old
\* entry had, shows no entry with the old stored name, and shows as many
\* files as the listing before the rename
C11_RenameRoundTrip ==
    [][\A c \in TrackClients, filename \in UrlNames, new_name \in NewNames :
          LET before == ListingOf(fs, session[c], c)
              after == ListingOf(fs', session'[c], c)
              new_stored_name ==
                  [dir |-> new_name.dir, stem |-> new_name.stem, ext |-> filename.ext]
          IN  (/\ RenameFile(c, filename, new_name)
               /\ last'.status = 200
               /\ \E j \in DOMAIN before : before[j].name = filename)
              => /\ \E i \in DOMAIN after, j \in DOMAIN before :
                       /\ after[i].name = new_stored_name
                       /\ before[j].name = filename
                       /\ after[i].content = before[j].content
                       /\ after[i].time = before[j].time
                 /\ \A i \in DOMAIN after : after[i].name # filename
                 /\ Len(after) = Len(before)]_vars


(***************************************************************************)
(* A rename that fails                                                     *)
(***************************************************************************)
TrackedTimes(c) ==
    IF session[c].session_data = <<>> THEN EmptyFn
    ELSE session[c].session_data[1].file_times

\* a rename_file step of client c that answered with an error status
FailedRename(c) ==
    /\ \E filename \in UrlNames, new_name \in NewNames : RenameFile(c, filename, new_name)
    /\ last'.status # 200

\* C12 as stated: when a rename cannot be carried out on disk (old file
\* missing, new name taken, or os.rename raises) rename_file answers with an
\* error and the tracked names, details and file times of the session and
\* the whole directory tree are exactly as before the call
C12_FailedRenameFrame ==
    [][\A c \in TrackClients :
          FailedRename(c) =>
              /\ last'.status \in {400, 404, 500}
              /\ TrackedNames(c)' = TrackedNames(c)
              /\ TrackedDetails(c)' = TrackedDetails(c)
              /\ TrackedTimes(c)' = TrackedTimes(c)
              /\ fs' = fs]_vars

\* C12 amended: a failed rename leaves the tracked names, details and file
\* times and every file of every directory as they were; the only change on
\* disk it can make is that the session's processed directory, when it was
\* absent, now exists and is empty
C12_FailedRenameKeepsFiles ==
    [][\A c \in TrackClients :
          FailedRename(c) =>
              /\ last'.status \in {400, 404, 500}
              /\ TrackedNames(c)' = TrackedNames(c)
              /\ TrackedDetails(c)' = TrackedDetails(c)
              /\ TrackedTimes(c)' = TrackedTimes(c)
              /\ \A cls \in Classes, loc \in Locs :
                    \/ fs'[cls][loc] = fs[cls][loc]
                    \/ /\ cls = "processed"
                       /\ loc = OwnLoc(c)
                       /\ ~fs[cls][loc].exists
                       /\ fs'[cls][loc] = NewDir]_vars

\* a rename has just been refused while the session tracks a file that is
\* on disk in its processed directory
C12_Witness ==
    /\ last.op = "rename_file"
    /\ last.status \in {400, 500}
    /\ \E c \in TrackClients :
          /\ last.client = c
          /\ TrackedNames(c) # <<>>
          /\ DOMAIN fs["processed"][OwnLoc(c)].files # {}


(***************************************************************************)
(* The listing reconciles the tracked files with the disk                  *)
(***************************************************************************)
\* the tracked entries of client c whose file is a file of the session's
\* processed directory on disk f
PresentDetails(f, c) ==
    LET InDir(d) ==
            /\ d.stored_name.dir = "."
            /\ [stem |-> d.stored_name.stem, ext |-> d.stored_name.ext]
                   \in DOMAIN f["processed"][OwnLoc(c)].files
    IN  SelectSeq(TrackedDetails(c), InDir)

\* C13: a listing (download page), whatever sweeps, clears and deletions
\* came before it, answers 200 and never an error, keeps exactly the tracked
\* entries whose file is in the session's processed directory, in order,
\* drops the others from processed_files and processed_files_details, and
\* shows for each kept entry its recorded time, or the file's mtime where
\* none was recorded
C13_ListingReconciles ==
    [][\A c \in TrackClients :
          DownloadPage(c) =>
              LET kept == PresentDetails(fs, c)
              IN  /\ last'.status = 200
                  /\ TrackedDetails(c)' = kept
                  /\ TrackedNames(c)' = [i \in DOMAIN kept |-> kept[i].stored_name]
                  /\ \A i \in DOMAIN kept :
                        LET n == kept[i].stored_name
                        IN  /\ n \in DOMAIN TrackedTimes(c)'
                            /\ TrackedTimes(c)'[n] =
                                  IF n \in DOMAIN TrackedTimes(c) THEN TrackedTimes(c)[n]
                                  ELSE fs["processed"][OwnLoc(c)].files[
                                           [stem |-> n.stem, ext |-> n.ext]].age]_vars


(***************************************************************************)
(* generic_tools.py: execute_tool in detail, with the requests that reach  *)
(* it with a batch of uploaded files                                       *)
(***************************************************************************)
NumBatch == 2
NumBatchStems == 3
NumExecStems == 4
MERGE_MIN_FILES == 2

PassThroughTools == {"merge", "unlock", "protect"}
LoopTools ==
    {"split", "rotate", "compress", "pdf-to-word", "pdf-to-excel", "pdf-to-ppt",
     "pdf-to-jpg", "pdf-to-text", "ocr"}
KnownTools == PassThroughTools \cup LoopTools
NoSuchTool == "no-such-tool"
\* the tool ids requests are made with, and the ids execute_tool is called with
BatchTools == {"merge", "unlock", "protect", "rotate"}
ExecToolIds == BatchTools \cup {NoSuchTool}
\* what happens on one input inside the try block: the tool function returns
\* a success result, returns an error result, or an exception is raised
Outcomes == {"success", "error", "raise"}
\* one outcome per call of the tool function: one call for merge, unlock and
\* protect, one per input file for the others
OutcomesFor(tool_id, n) ==
    [1..(IF tool_id \in PassThroughTools THEN Min(n, 1) ELSE n) -> Outcomes]

\* the result shapes of the older tool interface that execute_tool provides
\* for besides the mapping: a bare output path, a list of output paths
LegacyShapes == {"path", "list"}
LegacyTools == {"unlock", "rotate"}
LegacyOutcomesFor(tool_id, n) ==
    [1..(IF tool_id \in PassThroughTools THEN Min(n, 1) ELSE n) ->
        {"success"} \cup LegacyShapes]

\* variant: every id has a tool function
get_tool_function_any(tool_id) == TRUE

\* _get_tool_function: TRUE for a function, FALSE for None
get_tool_function(tool_id) == tool_id \in KnownTools

Err(message) == [status |-> "error", output_files |-> <<>>, message |-> message]

OutputPath(folder, stem, ext) ==
    [cls |-> folder[1], loc |-> folder[2], base |-> generate_file_names(stem, ext)]

\* a tool function on one input (unlock_pdf, protect_pdf, rotate_pdf): it catches its own failures and returns an error result
\* with no output; on success it writes one file into the session's
\* processed directory
tool_func(f, folder, outcome, stem) ==
    IF outcome = "success"
    THEN [fs |-> WriteFile(MakeDirs(f, folder), OutputPath(folder, stem, "pdf"),
                           [age |-> 0, content |-> 0]),
          result |-> [status |-> "success",
                      output_files |-> <<OutputPath(folder, stem, "pdf")>>,
                      message |-> "PDF processed successfully"]]
    ELSE [fs |-> f, result |-> Err("Error processing PDF")]

\* a tool function of the older interface on one input: it writes one file
\* into the session's processed directory and returns its path, bare or in
\* a list
legacy_tool_func(f, folder, shape, stem) ==
    [fs |-> WriteFile(MakeDirs(f, folder), OutputPath(folder, stem, "pdf"),
                      [age |-> 0, content |-> 0]),
     result |-> [shape |-> shape, paths |-> <<OutputPath(folder, stem, "pdf")>>]]

\* the call of the tool function on one input
call_tool_func(f, folder, outcome, stem) ==
    IF outcome \in LegacyShapes THEN legacy_tool_func(f, folder, outcome, stem)
    ELSE tool_func(f, folder, outcome, stem)

\* isinstance(result, dict) and "output_files" in result
HasOutputFiles(result) == "output_files" \in DOMAIN result

\* the formatting of the result of merge, unlock and protect at the end of
\* the try block: a mapping with status and output_files as it is, a list
\* as the output files of a success, anything else as a success without
\* output files
format_result(result) ==
    IF HasOutputFiles(result) THEN result
    ELSE IF result.shape = "list"
    THEN [status |-> "success", output_files |-> result.paths,
          message |-> "Successfully processed files"]
    ELSE [status |-> "success", output_files |-> <<>>,
          message |-> "Processing completed but no files were generated"]

\* variant: one output per input
RECURSIVE merge_pdfs_each(_, _, _, _, _)
merge_pdfs_each(f, folder, file_paths, outcome, stems) ==
    IF file_paths = <<>> \/ outcome # "success"
    THEN [fs |-> f, result |-> IF outcome = "success"
                               THEN [status |-> "success", output_files |-> <<>>,
                                     message |-> "Successfully merged"]
                               ELSE Err("Error merging PDFs")]
    ELSE LET one == tool_func(f, folder, outcome, Head(stems))
             rest == merge_pdfs_each(one.fs, folder, Tail(file_paths), outcome, Tail(stems))
         IN [fs |-> rest.fs,
             result |-> [rest.result EXCEPT
                           !.output_files = one.result.output_files \o @]]

\* variant: the error result of a merge carries the file it was writing
merge_pdfs_partial(f, folder, file_paths, outcome, stems) ==
    IF outcome = "success"
    THEN tool_func(f, folder, outcome, Head(stems))
    ELSE [fs |-> f,
          result |-> [status |-> "error",
                      output_files |-> <<OutputPath(folder, Head(stems), "pdf")>>,
                      message |-> ""]]

\* merge_pdfs: one merged_document whatever the number of inputs
merge_pdfs(f, folder, file_paths, outcome, stems) ==
    IF outcome = "success"
    THEN [tool_func(f, folder, outcome, Head(stems)) EXCEPT
             !.result.message = "Successfully merged"]
    ELSE [fs |-> f, result |-> Err("Error merging PDFs")]

\* variant: the archive holds the first file of the list only
create_zip_from_first(f, folder, file_list, stem) ==
    WriteFile(MakeDirs(f, folder), OutputPath(folder, stem, "zip"),
              [age |-> 0, content |-> 0,
               members |-> {file_list[i].base : i \in {j \in DOMAIN file_list : j = 1}}])

\* create_zip_from_files: an archive in the session's processed directory
\* that holds, under its base name, every file of the list that exists
create_zip_from_files(f, folder, file_list, stem) ==
    WriteFile(MakeDirs(f, folder), OutputPath(folder, stem, "zip"),
              [age |-> 0, content |-> 0,
               members |-> {q.base : q \in {x \in Range(file_list) : PathExists(f, x)}}])

\* what the try block has done: the disk, the result, the number of calls of
\* the tool function, whether an exception was raised, whether some call
\* returned an error result
Body(f, result, calls, raised, errored) ==
    [fs |-> f, result |-> result, calls |-> calls, raised |-> raised,
     errored |-> errored, propagated |-> FALSE]

\* the loop of the per-file tools: the output paths of the results are
\* collected; an exception leaves the loop
RECURSIVE loop_files(_, _, _, _, _)
loop_files(acc, folder, file_paths, outcomes, stems) ==
    IF file_paths = <<>> \/ acc.raised THEN acc
    ELSE IF Head(outcomes) = "raise"
    THEN [acc EXCEPT !.raised = TRUE, !.calls = @ + 1]
    ELSE LET r == call_tool_func(acc.fs, folder, Head(outcomes), Head(stems))
             collected == IF HasOutputFiles(r.result) THEN r.result.output_files ELSE <<>>
         IN loop_files([fs |-> r.fs,
                        outputs |-> acc.outputs \o collected,
                        calls |-> acc.calls + 1,
                        raised |-> FALSE,
                        errored |-> acc.errored
                                    \/ (HasOutputFiles(r.result) /\ r.result.status = "error")],
                       folder, Tail(file_paths), Tail(outcomes),
                       IF r.fs = acc.fs THEN stems ELSE Tail(stems))

\* variant: no input-count constraint
file_count_any(tool_id, n) == TRUE

\* the input-count constraints at the head of the try block: merge takes
\* two files or more, unlock and protect exactly one
file_count_ok(tool_id, n) ==
    IF tool_id = "merge" THEN n >= MERGE_MIN_FILES
    ELSE IF tool_id \in {"unlock", "protect"} THEN n = 1
    ELSE TRUE

\* the try block of execute_tool; a result that carries status and
\* output_files is returned as it is
try_block(f, folder, tool_id, file_paths, outcomes, stems) ==
    IF ~file_count_ok(tool_id, Len(file_paths))
    THEN Body(f, Err(IF tool_id = "merge" THEN "Merge requires at least 2 PDF files"
                     ELSE "tool only supports single file"),
              0, FALSE, FALSE)
    ELSE IF tool_id \in PassThroughTools
    THEN IF outcomes[1] = "raise" THEN Body(f, NoResult, 1, TRUE, FALSE)
         ELSE LET r == IF tool_id = "merge"
                       THEN merge_pdfs(f, folder, file_paths, outcomes[1], stems)
                       ELSE call_tool_func(f, folder, outcomes[1], Head(stems))
                  result == format_result(r.result)
              IN Body(r.fs, result, 1, FALSE, result.status = "error")
    ELSE LET l == loop_files([fs |-> f, outputs |-> <<>>, calls |-> 0,
                              raised |-> FALSE, errored |-> FALSE],
                             folder, file_paths, outcomes, stems)
             zip_stem == stems[Len(l.outputs) + 1]
         IN IF l.raised THEN Body(l.fs, NoResult, l.calls, TRUE, l.errored)
            ELSE IF l.outputs # <<>>
            THEN Body(create_zip_from_files(l.fs, folder, l.outputs, zip_stem),
                      [status |-> "success",
                       output_files |-> <<OutputPath(folder, zip_stem, "zip")>>,
                       message |-> "Successfully processed file(s)"],
                      l.calls, FALSE, l.errored)
            ELSE Body(l.fs, Err("No files were successfully processed"),
                      l.calls, FALSE, l.errored)

\* variant: the handler catches nothing
except_nothing(body) ==
    IF body.raised THEN [body EXCEPT !.result = NoResult, !.propagated = TRUE] ELSE body

\* except Exception: the exception becomes an error result
except_Exception(body) ==
    IF body.raised THEN [body EXCEPT !.result = Err("Error processing files")] ELSE body

\* variant: cleanup_temp_files deletes uploaded files
keep_uploaded_off == FALSE

\* the default of cleanup_temp_files' keep_uploaded, which execute_tool uses
keep_uploaded == TRUE

\* cleanup_temp_files: nothing under the processed root is deleted, and
\* nothing under the uploads root while keep_uploaded holds
RECURSIVE cleanup_temp_files(_, _, _)
cleanup_temp_files(f, file_paths, keep) ==
    IF file_paths = <<>> THEN f
    ELSE LET p == Head(file_paths)
             skip == \/ ~PathExists(f, p)
                     \/ p.cls = "processed"
                     \/ keep /\ p.cls = "uploads"
         IN cleanup_temp_files(IF skip THEN f ELSE RemoveFile(f, p), Tail(file_paths), keep)

\* execute_tool(tool_id, file_paths, ...) on disk f for the session
execute_tool_call(f, session_id, tool_id, file_paths, outcomes, stems) ==
    LET folder == get_session_folder("processed", session_id)
        IsUpload(p) == p.cls = "uploads"
    IN  IF \E i \in DOMAIN file_paths : ~PathExists(f, file_paths[i])
        THEN Body(f, Err("File not found"), 0, FALSE, FALSE)
        ELSE IF ~get_tool_function(tool_id)
        THEN Body(f, Err("Unknown tool"), 0, FALSE, FALSE)
        ELSE IF file_paths = <<>>
        THEN Body(f, Err("No files provided"), 0, FALSE, FALSE)
        ELSE LET body == except_Exception(
                             try_block(f, folder, tool_id, file_paths, outcomes, stems))
             IN [body EXCEPT !.fs = cleanup_temp_files(@, SelectSeq(file_paths, IsUpload),
                                                       keep_uploaded)]

CallRecord(tool_id, file_paths, outcomes, r, via) ==
    [tool_id |-> tool_id, file_paths |-> file_paths, outcomes |-> outcomes,
     result |-> r.result, calls |-> r.calls, raised |-> r.raised,
     errored |-> r.errored, propagated |-> r.propagated, via |-> via]

\* the paths execute_tool is called with: the first NumBatch upload names of
\* the session, on disk or not
UploadPaths(c) ==
    {[cls |-> "uploads", loc |-> OwnLoc(c), base |-> generate_file_names(k, "pdf")] :
        k \in {x \in Reserved(c, NumBatchStems) :
                  x < MinOf(Reserved(c, NumBatchStems)) + NumBatch}}
PathSeqs(c) == UNION {[1..n -> UploadPaths(c)] : n \in 0..NumBatch}

\* a call of execute_tool within a request of client c
ExecuteTool(c, tool_id, file_paths, outcomes) ==
    LET s0 == initialize_session(c, session[c])
        pool == Reserved(c, NumExecStems)
        r == execute_tool_call(fs, s0.session_id, tool_id, file_paths, outcomes,
                               FreshStems(pool, UsedProcessedStems, NumBatch + 1))
    IN  /\ HasFresh(pool, UsedProcessedStems, NumBatch + 1)
        /\ fs' = r.fs
        /\ session' = [session EXCEPT ![c] = s0]
        /\ call' = CallRecord(tool_id, file_paths, outcomes, r, "execute_tool")
        /\ last' = Resp("execute_tool", c, 0)
        /\ UNCHANGED <<PREVIEW_CACHE, probe, workers, last_time_called, clock, scheduler>>

\* the preview loop of tool_preview over the saved files
RECURSIVE preview_loop(_, _, _, _, _, _)
preview_loop(acc, temp_files, tool_id, password, previews_folder, pool) ==
    IF temp_files = <<>> THEN acc
    ELSE LET file_path == Head(temp_files)
             content == acc.fs[file_path.cls][file_path.loc].files[file_path.base].content
             cache_key == CacheKey(content, password)
             cached == get_cached_previews(acc.cache, cache_key)
             page_count == get_pdf_page_count(content)
             skip_preview == tool_id = "unlock"
             used == StemsOnDisk(acc.fs, "previews")
                     \cup UNION {{t.stem : t \in Range(cached.cache[k].previews.thumbnails)} :
                                    k \in DOMAIN cached.cache}
             fresh == HasFresh(pool, used, page_count)
             stems == IF fresh THEN FreshStems(pool, used, page_count) ELSE <<>>
             thumbs == IF skip_preview THEN [i \in 1..page_count |-> PlaceholderName]
                       ELSE ThumbNames(stems)
             f1 == IF cached.hit \/ skip_preview THEN acc.fs
                   ELSE WriteThumbs(MakeDirs(acc.fs, previews_folder), previews_folder, stems)
         IN preview_loop(
                [fs |-> f1,
                 cache |-> IF cached.hit THEN cached.cache
                           ELSE cache_previews(cached.cache, cache_key, thumbs, page_count),
                 keys |-> Append(acc.keys, cache_key),
                 ok |-> acc.ok /\ (cached.hit \/ skip_preview \/ fresh)],
                Tail(temp_files), tool_id, password, previews_folder, pool)

RECURSIVE WriteUploads(_, _, _)
WriteUploads(f, paths, content) ==
    IF paths = <<>> THEN f
    ELSE WriteUploads(WriteFile(f, Head(paths), [age |-> 0, content |-> content]),
                      Tail(paths), content)

\* cleanup_files
RECURSIVE cleanup_files(_, _)
cleanup_files(f, paths) ==
    IF paths = <<>> THEN f
    ELSE cleanup_files(IF PathExists(f, Head(paths)) THEN RemoveFile(f, Head(paths)) ELSE f,
                       Tail(paths))

\* tool_preview with n uploaded files of the same bytes
ToolPreviewFiles(c, tool_id, n, content, password) ==
    LET s0 == initialize_session(c, session[c])
        upload_folder == get_session_folder("uploads", s0.session_id)
        stems == FreshStems(Reserved(c, NumBatchStems), UsedUploadStems, n)
        temp_files == [i \in 1..n |->
                          [cls |-> "uploads", loc |-> upload_folder[2],
                           base |-> generate_file_names(stems[i], "pdf")]]
        f1 == WriteUploads(MakeDirs(fs, upload_folder), temp_files, content)
        is_valid == ~(tool_id = "merge" /\ n < MERGE_MIN_FILES)
        loop == preview_loop([fs |-> f1, cache |-> PREVIEW_CACHE, keys |-> <<>>, ok |-> TRUE],
                             temp_files, tool_id, password,
                             get_session_folder("previews", s0.session_id),
                             Reserved(c, NumThumbStems))
    IN  /\ HasFresh(Reserved(c, NumBatchStems), UsedUploadStems, n)
        /\ IF ~is_valid
           THEN /\ fs' = cleanup_files(f1, temp_files)
                /\ session' = [session EXCEPT ![c] = s0]
                /\ last' = Resp("tool_preview", c, 400)
                /\ UNCHANGED PREVIEW_CACHE
           ELSE /\ loop.ok
                /\ fs' = loop.fs
                /\ PREVIEW_CACHE' = loop.cache
                /\ session' = [session EXCEPT ![c] =
                      [s0 EXCEPT !.preview_data =
                          <<[temp_files |-> temp_files, cache_keys |-> loop.keys,
                             files |-> [i \in DOMAIN temp_files |->
                                           [stored_name |-> temp_files[i].base]]]>>]]
                /\ last' = Resp("tool_preview", c, 200)
        /\ UNCHANGED <<probe, workers, call, last_time_called, clock, scheduler>>

\* process_tool on the files of the session's preview, through
\* generic_process and execute_tool
ProcessToolFiles(c, tool_id, outcomes) ==
    LET s0 == initialize_session(c, session[c])
        session_folder == get_session_folder("processed", s0.session_id)
        pool == Reserved(c, NumExecStems)
    IN  IF s0.preview_data = <<>>
           \/ \E p \in Range(s0.preview_data[1].temp_files) : ~PathExists(fs, p)
        THEN /\ fs' = fs
             /\ session' = [session EXCEPT ![c] = s0]
             /\ last' = Resp("process_tool", c, 400)
             /\ UNCHANGED <<PREVIEW_CACHE, probe, workers, call, last_time_called, clock, scheduler>>
        ELSE LET f1 == MakeDirs(fs, session_folder)
                 existing_files == ListDir(f1, session_folder)
                 uploaded_files_paths == s0.preview_data[1].temp_files
                 r == execute_tool_call(f1, s0.session_id, tool_id, uploaded_files_paths,
                                        outcomes,
                                        FreshStems(pool, UsedProcessedStems, NumBatch + 1))
                 status_code == IF r.propagated THEN 500
                                ELSE IF r.result.status = "error" THEN 400 ELSE 200
                 new_files == ListDir(r.fs, session_folder) \ existing_files
                 sd == TrackFiles(s0.session_data[1], FilesToTrack(new_files, tool_id),
                                  r.fs, session_folder)
             IN  /\ HasFresh(pool, UsedProcessedStems, NumBatch + 1)
                 /\ fs' = r.fs
                 /\ call' = CallRecord(tool_id, uploaded_files_paths, outcomes, r,
                                       "process_tool")
                 /\ IF status_code = 200
                    THEN /\ PREVIEW_CACHE' =
                               DropKeys(PREVIEW_CACHE, s0.preview_data[1].cache_keys)
                         /\ session' = [session EXCEPT ![c] =
                               [s0 EXCEPT !.preview_data = <<>>,
                                          !.session_data = <<update_countdown(sd)>>]]
                         /\ last' = Resp("process_tool", c, 302)
                    ELSE /\ session' = [session EXCEPT ![c] = s0]
                         /\ last' = Resp("process_tool", c, status_code)
                         /\ UNCHANGED PREVIEW_CACHE
                 /\ UNCHANGED <<probe, workers, last_time_called, clock, scheduler>>

\* the number of files of the session's preview
BatchLen(c) ==
    IF session[c].preview_data = <<>> THEN 0
    ELSE Len(session[c].preview_data[1].temp_files)

\* calls of execute_tool on the uploads of a session
NextExec ==
    \E c \in TrackClients :
        \/ \E t \in BatchTools, n \in 1..NumBatch, k \in Contents, pw \in Passwords :
              ToolPreviewFiles(c, t, n, k, pw)
        \/ \E t \in ExecToolIds, ps \in PathSeqs(c) :
              \E o \in OutcomesFor(t, Len(ps)) : ExecuteTool(c, t, ps, o)
        \/ ClearSession(c)
SpecExec == Init /\ [][NextExec]_vars

\* preview and process requests over batches of files
NextBatch ==
    \E c \in TrackClients :
        \/ \E t \in BatchTools, n \in 1..NumBatch, k \in Contents, pw \in Passwords :
              ToolPreviewFiles(c, t, n, k, pw)
        \/ \E t \in BatchTools : \E o \in OutcomesFor(t, BatchLen(c)) :
              ProcessToolFiles(c, t, o)
        \/ ClearSession(c)
SpecBatch == Init /\ [][NextBatch]_vars

\* calls of execute_tool whose tool function is of the older interface
NextLegacy ==
    \E c \in TrackClients :
        \/ \E t \in LegacyTools, n \in 1..NumBatch, k \in Contents, pw \in Passwords :
              ToolPreviewFiles(c, t, n, k, pw)
        \/ \E t \in LegacyTools, ps \in PathSeqs(c) :
              \E o \in LegacyOutcomesFor(t, Len(ps)) : ExecuteTool(c, t, ps, o)
        \/ ClearSession(c)
SpecLegacy == Init /\ [][NextLegacy]_vars


(***************************************************************************)
(* Properties of execute_tool and of the merge request                     *)
(***************************************************************************)
\* a step in which execute_tool was called for client c and has returned
ExecStep(c) ==
    /\ last'.client = c
    /\ \/ last'.op = "execute_tool"
       \/ /\ last'.op = "process_tool"
          /\ session[c].preview_data # <<>>
          /\ \A p \in Range(session[c].preview_data[1].temp_files) : PathExists(fs, p)

\* C14: a successful merge request over k >= 2 uploaded files adds exactly
\* one tracked processed file to the session, the merged output, after the
\* files tracked before
C14_MergeAddsOne ==
    [][\A c \in TrackClients :
          (/\ ExecStep(c)
           /\ last'.op = "process_tool"
           /\ last'.status = 302
           /\ call'.tool_id = "merge")
          => /\ Len(call'.file_paths) >= MERGE_MIN_FILES
             /\ Len(call'.result.output_files) = 1
             /\ TrackedNames(c)' =
                   Append(TrackedNames(c), StoredName(call'.result.output_files[1].base))
             /\ Len(TrackedDetails(c)') = Len(TrackedDetails(c)) + 1
             /\ TrackedDetails(c)'[Len(TrackedDetails(c)')].stored_name =
                   StoredName(call'.result.output_files[1].base)
             /\ PathExists(fs', call'.result.output_files[1])]_vars

\* a merge request over two files has just succeeded for a session that
\* already tracked a processed file
C14_Witness ==
    /\ last.op = "process_tool"
    /\ last.status = 302
    /\ call.via = "process_tool"
    /\ call.tool_id = "merge"
    /\ Len(call.file_paths) >= MERGE_MIN_FILES
    /\ call.result.status = "success"
    /\ \E c \in TrackClients : Len(TrackedNames(c)) = 2

\* C15: after execute_tool returns, no input file located under the uploads
\* root exists on disk any more, for every tool
C15_InputsDeleted ==
    [][\A c \in TrackClients :
          ExecStep(c) =>
              \A p \in Range(call'.file_paths) :
                  p.cls = "uploads" => ~PathExists(fs', p)]_vars

\* the inputs of the call are all on disk after it
InputsKept ==
    \A p \in Range(call'.file_paths) :
        /\ PathExists(fs', p)
        /\ fs'[p.cls][p.loc].files[p.base] = fs[p.cls][p.loc].files[p.base]

C17_CountChecked ==
    [][\A c \in TrackClients :
          (/\ ExecStep(c)
           /\ \/ call'.tool_id = "merge" /\ Len(call'.file_paths) < 2
              \/ call'.tool_id \in {"unlock", "protect"} /\ Len(call'.file_paths) # 1)
          => /\ call'.result.status = "error"
             /\ call'.result.output_files = <<>>
             /\ call'.calls = 0
             /\ \A loc \in Locs : fs'["processed"][loc].files = fs["processed"][loc].files]_vars

\* a single-file tool has just been called with two existing inputs, and
\* merge with one
C17_Witness ==
    /\ call.via # ""
    /\ \/ call.tool_id \in {"unlock", "protect"} /\ Len(call.file_paths) = 2
       \/ call.tool_id = "merge" /\ Len(call.file_paths) = 1
    /\ \A p \in Range(call.file_paths) : PathExists(fs, p)
    /\ call.result.status = "error"
    /\ call.calls = 0

\* C18: a call with a tool id outside the twelve returns status error with
\* an empty output_files, calls no tool function and raises nothing
C18_UnknownTool ==
    (call.via # "" /\ call.tool_id \notin KnownTools) =>
        /\ call.result.status = "error"
        /\ call.result.output_files = <<>>
        /\ call.calls = 0
        /\ ~call.raised
        /\ ~call.propagated

\* an unknown tool id has just been called with existing inputs
C18_Witness ==
    /\ call.via # ""
    /\ call.tool_id = NoSuchTool
    /\ call.file_paths # <<>>
    /\ \A p \in Range(call.file_paths) : PathExists(fs, p)
    /\ call.result.status = "error"

C20_ErrorShape ==
    (call.via # "" /\ call.result.status = "error") =>
        /\ call.result.output_files = <<>>
        /\ call.result.message # ""

\* the error result of merge_pdfs has just been passed through
C20_Witness ==
    /\ call.via # ""
    /\ call.tool_id = "merge"
    /\ call.calls = 1
    /\ call.errored
    /\ call.result.status = "error"

(***************************************************************************)
(* Properties of the results of execute_tool over a batch                  *)
(***************************************************************************)
\* the files of the given extension that the step has added to the
\* processed directories
NewOutputs(ext) ==
    UNION {{[cls |-> "processed", loc |-> loc, base |-> b] :
               b \in {x \in DOMAIN fs'["processed"][loc].files :
                         x.ext = ext /\ x \notin DOMAIN fs["processed"][loc].files}} :
           loc \in Locs}

\* the file is among the returned output files, or in a returned archive
Covered(o) ==
    \E i \in DOMAIN call'.result.output_files :
        LET out == call'.result.output_files[i]
        IN \/ out = o
           \/ /\ out.base.ext = "zip"
              /\ PathExists(fs', out)
              /\ o.base \in fs'[out.cls][out.loc].files[out.base].members

\* C21: a per-file tool run over a batch reports status error only if no
\* output file was produced for any input; if some input produced an output
\* the result is success and covers the outputs produced, whether the other
\* inputs returned an error result or raised
C21_ErrorOnlyWithoutOutputs ==
    [][\A c \in TrackClients :
          (ExecStep(c) /\ call'.tool_id \in LoopTools /\ call'.calls >= 1) =>
              /\ call'.result.status = "error" => NewOutputs("pdf") = {}
              /\ NewOutputs("pdf") # {} =>
                    /\ call'.result.status = "success"
                    /\ \A o \in NewOutputs("pdf") : Covered(o)]_vars

\* C22: a batch of n > 1 inputs that produces n outputs returns success with
\* exactly one output entry, the archive, which holds the n produced files
C22_BatchBundled ==
    [][\A c \in TrackClients :
          (/\ ExecStep(c)
           /\ call'.tool_id \in LoopTools
           /\ Len(call'.file_paths) > 1
           /\ call'.calls = Len(call'.file_paths)
           /\ \A i \in 1..call'.calls : call'.outcomes[i] = "success")
          => /\ call'.result.status = "success"
             /\ Len(call'.result.output_files) = 1
             /\ call'.result.output_files[1].base.ext = "zip"
             /\ PathExists(fs', call'.result.output_files[1])
             /\ LET out == call'.result.output_files[1]
                    members == fs'[out.cls][out.loc].files[out.base].members
                IN /\ members = {o.base : o \in NewOutputs("pdf")}
                   /\ Cardinality(members) = Len(call'.file_paths)]_vars

\* a batch of NumBatch inputs has just been rotated, every input with
\* success, and the archive returned holds NumBatch files
C22_Witness ==
    /\ call.via # ""
    /\ call.tool_id = "rotate"
    /\ call.calls = NumBatch
    /\ NumBatch > 1
    /\ \A i \in 1..call.calls : call.outcomes[i] = "success"
    /\ call.result.status = "success"
    /\ Len(call.result.output_files) = 1
    /\ PathExists(fs, call.result.output_files[1])
    /\ LET out == call.result.output_files[1]
       IN Cardinality(fs[out.cls][out.loc].files[out.base].members) = NumBatch

\* C23: a call with a single input for which the tool produces a single
\* output file returns that file itself, and no archive is created
C23_SingleUnbundled ==
    [][\A c \in TrackClients :
          (/\ ExecStep(c)
           /\ call'.tool_id \in KnownTools
           /\ Len(call'.file_paths) = 1
           /\ call'.calls = 1
           /\ call'.outcomes[1] = "success")
          => /\ Len(call'.result.output_files) = 1
             /\ call'.result.output_files[1] \in NewOutputs("pdf")
             /\ NewOutputs("zip") = {}]_vars

\* C24: when every call of the tool function returns a legacy shape, a bare
\* output path or a list of output paths, execute_tool returns status
\* success and its output_files are exactly the paths returned (in an
\* archive where a batch is bundled)
C24_LegacyNormalized ==
    [][\A c \in TrackClients :
          (/\ ExecStep(c)
           /\ call'.calls >= 1
           /\ \A i \in 1..call'.calls : call'.outcomes[i] \in LegacyShapes)
          => /\ call'.result.status = "success"
             /\ call'.result.output_files # <<>>
             /\ \A o \in NewOutputs("pdf") : Covered(o)
             /\ \A i \in DOMAIN call'.result.output_files :
                   call'.result.output_files[i] \in NewOutputs("pdf") \cup NewOutputs("zip")]_vars

(***************************************************************************)
(* generic_tools.py: rate_limited(30), the decorator of execute_tool,      *)
(* called by the request threads of the server.  Time is counted in        *)
(* seconds.                                                                *)
(***************************************************************************)
MaxTime == 6
MaxCalls == 3
\* @rate_limited(30)
MAX_PER_MINUTE == 30
min_interval == 60 \div MAX_PER_MINUTE

RateIdle == [pc |-> "idle", left_to_wait |-> 0, wake |-> 0]

\* last_time_called starts at 0.0 and time.time() is the time since the
\* epoch: the first call finds more than min_interval elapsed
InitRate ==
    /\ fs = InitFs
    /\ PREVIEW_CACHE = EmptyFn
    /\ session = [c \in Clients |-> EmptySession]
    /\ last = NoLast
    /\ probe = NoProbe
    /\ workers = [w \in WorkerIds |-> RateIdle]
    /\ call = NoCall
    /\ last_time_called = 0
    /\ clock = [time |-> min_interval, starts |-> <<>>]
    /\ scheduler = NoJobs

\* calls of execute_tool issued so far
CallsIssued ==
    Len(clock.starts) + Cardinality({w \in WorkerIds : workers[w].pc \in {"elapsed", "sleep", "call"}})

\* a request thread calls execute_tool, i.e. rate_limited_function
RateCall(w) ==
    /\ workers[w].pc = "idle"
    /\ CallsIssued < MaxCalls
    /\ workers' = [workers EXCEPT ![w].pc = "elapsed"]
    /\ UNCHANGED <<fs, PREVIEW_CACHE, session, last, probe, call, last_time_called, clock, scheduler>>

\* elapsed = time.time() - last_time_called; left_to_wait = min_interval - elapsed
ReadElapsed(w) ==
    LET elapsed == clock.time - last_time_called
        left_to_wait == min_interval - elapsed
    IN  /\ workers[w].pc = "elapsed"
        /\ workers' = [workers EXCEPT ![w] =
              IF left_to_wait > 0
              THEN [pc |-> "sleep", left_to_wait |-> left_to_wait,
                    wake |-> clock.time + left_to_wait]
              ELSE [pc |-> "call", left_to_wait |-> 0, wake |-> 0]]
        /\ UNCHANGED <<fs, PREVIEW_CACHE, session, last, probe, call, last_time_called, clock, scheduler>>

\* time.sleep(left_to_wait) returns once that much time has passed
SleepReturns(w) ==
    /\ workers[w].pc = "sleep"
    /\ clock.time >= workers[w].wake
    /\ workers' = [workers EXCEPT ![w].pc = "call"]
    /\ UNCHANGED <<fs, PREVIEW_CACHE, session, last, probe, call, last_time_called, clock, scheduler>>

\* last_time_called = time.time(); return func(*args, **kwargs): the body
\* of execute_tool is entered
CallFunc(w) ==
    /\ workers[w].pc = "call"
    /\ last_time_called' = clock.time
    /\ clock' = [clock EXCEPT !.starts = Append(@, clock.time)]
    /\ workers' = [workers EXCEPT ![w].pc = "func"]
    /\ UNCHANGED <<fs, PREVIEW_CACHE, session, last, probe, call, scheduler>>

\* execute_tool returns
FuncReturns(w) ==
    /\ workers[w].pc = "func"
    /\ workers' = [workers EXCEPT ![w] = RateIdle]
    /\ UNCHANGED <<fs, PREVIEW_CACHE, session, last, probe, call, last_time_called, clock, scheduler>>

\* a second passes
TickTime ==
    /\ clock.time < MaxTime
    /\ clock' = [clock EXCEPT !.time = @ + 1]
    /\ UNCHANGED <<fs, PREVIEW_CACHE, session, last, probe, workers, call, last_time_called, scheduler>>

NextRate ==
    \/ \E w \in WorkerIds :
          \/ RateCall(w)
          \/ ReadElapsed(w)
          \/ SleepReturns(w)
          \/ CallFunc(w)
          \/ FuncReturns(w)
    \/ TickTime
SpecRate == InitRate /\ [][NextRate]_vars

\* C25: any two executions of the body of execute_tool, by whichever
\* threads, start at least min_interval = 60/30 seconds apart
C25_CallsSpaced ==
    \A i, j \in DOMAIN clock.starts :
        i < j => clock.starts[j] - clock.starts[i] >= min_interval

RmtreeOutcomes == {"removed", "raises", "raises_midway"}

\* shutil.rmtree with the given outcome
rmtree(d, outcome) ==
    IF outcome = "removed" THEN AbsentDir
    ELSE IF outcome = "raises" THEN d
    ELSE Touch([d EXCEPT !.files = EmptyFn])

\* the order of folders_to_clean
folders_to_clean == <<"uploads", "processed", "previews">>

\* the classes whose sess_<id> directory exists and whose removal raises
FailedRemovals(f, session_id, outcome) ==
    {cls \in Classes :
        /\ f[cls][get_session_folder_path(cls, session_id)[2]].exists
        /\ outcome[cls] # "removed"}

\* variant: one try around the loop, the first failure ends it
manual_clear_until_failure(f, session_id, outcome) ==
    [cls \in Classes |->
        [loc \in Locs |->
            IF loc = get_session_folder_path(cls, session_id)[2] /\ f[cls][loc].exists
               /\ \A i \in DOMAIN folders_to_clean :
                     folders_to_clean[i] \in FailedRemovals(f, session_id, outcome) =>
                        \E j \in DOMAIN folders_to_clean :
                            j <= i /\ folders_to_clean[j] = cls
            THEN rmtree(f[cls][loc], outcome[cls]) ELSE f[cls][loc]]]

\* manual_clear_session_folders on a filesystem where rmtree may fail: each
\* existing sess_<id> directory is removed inside its own try, a failure is
\* logged and the loop goes on
manual_clear_with_failures(f, session_id, outcome) ==
    [cls \in Classes |->
        [loc \in Locs |->
            IF loc = get_session_folder_path(cls, session_id)[2] /\ f[cls][loc].exists
            THEN rmtree(f[cls][loc], outcome[cls]) ELSE f[cls][loc]]]

\* clear_session (/clear) on a filesystem where rmtree may fail
ClearSessionFailing(c, outcome) ==
    LET s0 == initialize_session(c, session[c])
        f1 == manual_clear_with_failures(fs, s0.session_id, outcome)
    IN  /\ fs' = f1
        /\ session' = [session EXCEPT ![c] =
              [s0 EXCEPT !.preview_data = <<>>, !.session_data = <<SessionData>>]]
        /\ last' = [Resp("clear_session", c, 200) EXCEPT
                       !.failed = FailedRemovals(fs, s0.session_id, outcome),
                       !.removed = Cardinality({cls \in Classes :
                                       fs[cls][OwnLoc(c)].exists /\ ~f1[cls][OwnLoc(c)].exists})]
        /\ UNCHANGED <<PREVIEW_CACHE, probe, workers, call, last_time_called, clock, scheduler>>

NextClear ==
    \E c \in Clients :
        \/ \E k \in Contents, pw \in Passwords : ToolPreview(c, "rotate", k, pw)
        \/ \E ok \in BOOLEAN : ProcessTool(c, "rotate", ok)
        \/ \E o \in [Classes -> RmtreeOutcomes] : ClearSessionFailing(c, o)
SpecClear == Init /\ [][NextClear]_vars

\* C27: manual_clear_session_folders removes the three directories of the
\* session independently: a removal that fails is not raised and does not
\* keep the other two from being removed; on return every directory whose
\* removal did not fail is absent, and no other session's directory changed
C27_ClearBestEffort ==
    [][\A c \in Clients :
          (last'.op = "clear_session" /\ last'.client = c) =>
              /\ last'.status = 200
              /\ \A cls \in Classes :
                    /\ cls \notin last'.failed => ~fs'[cls][OwnLoc(c)].exists
                    /\ cls \in last'.failed => fs'[cls][OwnLoc(c)].exists
                    /\ \A loc \in Locs \ {OwnLoc(c)} : fs'[cls][loc] = fs[cls][loc]]_vars

\* the removal of the uploads directory, the first of the three, has just
\* failed and the other two directories of the session were removed
C27_Witness ==
    /\ last.op = "clear_session"
    /\ last.failed = {"uploads"}
    /\ last.removed = 2
    /\ \E c \in Clients :
          /\ last.client = c
          /\ fs["uploads"][OwnLoc(c)].exists
          /\ ~fs["processed"][OwnLoc(c)].exists
          /\ ~fs["previews"][OwnLoc(c)].exists

(***************************************************************************)
(* utils/cleanup.py: schedule_session_cleanup and the jobs of its          *)
(* scheduler.  A job records the minutes left until its run date.          *)
(***************************************************************************)
\* delay_seconds of the calls: the default of 600 seconds, and twice that
CleanupDelays == {SESSION_TIMEOUT_MINUTES, 2 * SESSION_TIMEOUT_MINUTES}

\* scheduler.add_job is given run_date = time.time() + delay_seconds, a
\* float: the job is added, or the date trigger rejects the value and
\* add_job raises, which schedule_session_cleanup catches and logs
AddJobOutcomes == {"added", "raises"}

\* id=f"cleanup_{session_id}"
JobId(session_id) == <<"cleanup_">> \o session_id

\* scheduler.add_job(..., id=id, replace_existing=True)
add_job(jobs, id, run_in, session_id) ==
    {j \in jobs : j.id # id}
    \cup {[id |-> id, run_in |-> run_in, session_id |-> session_id]}

\* schedule_session_cleanup(session_id, delay_seconds) for the session of c
ScheduleSessionCleanup(c, delay, outcome) ==
    /\ scheduler' =
          IF outcome = "added"
          THEN [running |-> TRUE,
                jobs |-> add_job(scheduler.jobs, JobId(Uuid4(c)), delay, Uuid4(c))]
          ELSE [scheduler EXCEPT !.running = TRUE]
    /\ last' = [Resp("schedule_session_cleanup", c, 0) EXCEPT !.args = <<delay>>]
    /\ UNCHANGED <<fs, PREVIEW_CACHE, session, probe, workers, call, last_time_called, clock>>

\* the scheduler runs a job whose run date has come: _scheduled_cleanup_job
\* calls manual_clear_session_folders in the scheduler's thread, where no
\* application context is pushed, so current_app.config raises RuntimeError
\* before any directory is looked at; the job is done with
ScheduledCleanupJob(c) ==
    /\ \E j \in scheduler.jobs : j.session_id = Uuid4(c) /\ j.run_in = 0
    /\ scheduler' = [scheduler EXCEPT !.jobs =
                        {j \in @ : ~(j.session_id = Uuid4(c) /\ j.run_in = 0)}]
    /\ fs' = fs
    /\ last' = Resp("_scheduled_cleanup_job", c, 500)
    /\ UNCHANGED <<PREVIEW_CACHE, session, probe, workers, call, last_time_called, clock>>

NextSchedule ==
    \/ Tick
    \/ \E c \in Clients :
          \/ \E k \in Contents, pw \in Passwords : ToolPreview(c, "rotate", k, pw)
          \/ \E d \in CleanupDelays, o \in AddJobOutcomes : ScheduleSessionCleanup(c, d, o)
          \/ ScheduledCleanupJob(c)
SpecSchedule == Init /\ [][NextSchedule]_vars

\* C28: there is at most one pending cleanup job per session id; a call of
\* schedule_session_cleanup leaves exactly one pending job for the session,
\* at the delay of that call, and when the job runs the session's
\* directories are removed
C28_OnePendingJob ==
    [][\A c \in Clients :
          /\ \A j1, j2 \in scheduler'.jobs : j1.session_id = j2.session_id => j1 = j2
          /\ (last'.op = "schedule_session_cleanup" /\ last'.client = c) =>
                {j \in scheduler'.jobs : j.session_id = Uuid4(c)} =
                    {[id |-> JobId(Uuid4(c)), run_in |-> last'.args[1], session_id |-> Uuid4(c)]}
          /\ (last'.op = "_scheduled_cleanup_job" /\ last'.client = c) =>
                \A cls \in Classes : ~fs'[cls][OwnLoc(c)].exists]_vars

(***************************************************************************)
(* Properties of the preview cache under the recurring cleanup             *)
(***************************************************************************)
Expired(k) == k \in DOMAIN PREVIEW_CACHE /\ PREVIEW_CACHE[k].age >= CACHE_EXPIRY_MINUTES

\* C29: with time passing and run_cleanup firing again and again, an entry
\* of PREVIEW_CACHE whose time to live has passed is eventually removed,
\* whether or not a request reads its key again
C29_ExpiredEvicted ==
    \A k \in Contents \X Passwords : Expired(k) ~> (k \notin DOMAIN PREVIEW_CACHE)

(***************************************************************************)
(* utils/cleanup.py: cleanup_aged_files called with retentions that        *)
(* differ between the classes (its three parameters)                       *)
(***************************************************************************)
Retentions == {UPLOAD_FILE_RETENTION_MINUTES \div 2, UPLOAD_FILE_RETENTION_MINUTES}

\* cleanup_aged_files(upload_max_age_minutes, preview_max_age_minutes,
\*                    processed_max_age_minutes)
CleanupAgedFiles(upload_max, preview_max, processed_max) ==
    /\ fs' = cleanup_aged_files(fs, upload_max, preview_max, processed_max)
    /\ last' = [Resp("cleanup_aged_files", 0, 0) EXCEPT
                    !.args = <<upload_max, preview_max, processed_max>>,
                    !.removed = Cardinality(SweptDirs(fs,
                                    Max(processed_max, SWEEP_FLOOR_MINUTES)))]
    /\ UNCHANGED <<PREVIEW_CACHE, session, probe, workers, call, last_time_called, clock, scheduler>>

NextRetention ==
    \/ Tick
    \/ \E u, p, r \in Retentions : CleanupAgedFiles(u, p, r)
    \/ \E c \in Clients :
          \/ \E k \in Contents, pw \in Passwords : ToolPreview(c, "rotate", k, pw)
          \/ ProcessTool(c, "rotate", TRUE)
SpecRetention == Init /\ [][NextRetention]_vars

\* the retention among <<uploads, previews, processed>> that belongs to cls
RetentionOf(cls, retentions) ==
    CASE cls = "uploads" -> retentions[1]
      [] cls = "previews" -> retentions[2]
      [] cls = "processed" -> retentions[3]

\* C30: a sweep removes a session directory under a storage class exactly
\* when the directory is older than the retention of that class, whatever
\* the retentions of the other two classes
C30_OwnRetention ==
    [][last'.op = "cleanup_aged_files" =>
          \A cls \in Classes, loc \in DirNames :
             fs[cls][loc].exists =>
                (~fs'[cls][loc].exists <=>
                    SweepsDir(fs[cls][loc], RetentionOf(cls, last'.args)))]_vars

(***************************************************************************)
(* Properties of the sweep against the countdown of a session              *)
(***************************************************************************)
CountdownRunning(c) ==
    /\ session[c].session_data # <<>>
    /\ session[c].session_data[1].countdown > 0

SweepTroubles == {"stat_raises", "raises", "vanished"}

\* the outcome of the sweep's handling of one directory it listed
sweep_dir(d, max_age_minutes, trouble) ==
    IF trouble = "vanished" THEN AbsentDir
    ELSE IF trouble = "stat_raises" THEN d
    ELSE IF ~SweepsDir(d, max_age_minutes) THEN d
    ELSE IF trouble = "none" THEN AbsentDir
    ELSE rmtree(d, trouble)

\* the listed directories whose handling fails
TroubledDirs(f, troubled) == {x \in troubled : f[x[1]][x[2]].exists}

\* the position of a class in folders_to_check
RootIndex(cls) == CHOOSE i \in DOMAIN folders_to_clean : folders_to_clean[i] = cls

\* variant: no try around one directory, the first failure ends the sweep
cleanup_old_sessions_until_failure(f, max_age_minutes, troubled, trouble) ==
    [fs |-> [cls \in Classes |->
               [loc \in Locs |->
                   IF loc \notin DirNames \/ ~f[cls][loc].exists THEN f[cls][loc]
                   ELSE IF <<cls, loc>> \in troubled
                        THEN sweep_dir(f[cls][loc], max_age_minutes, trouble)
                   ELSE IF \E x \in TroubledDirs(f, troubled) : RootIndex(x[1]) <= RootIndex(cls)
                        THEN f[cls][loc]
                   ELSE sweep_dir(f[cls][loc], max_age_minutes, "none")]],
     raised |-> TroubledDirs(f, troubled) # {}]

\* cleanup_old_sessions: each listed directory is examined and removed
\* inside its own try; a failure is logged (or passed over) and the loops
\* go on
cleanup_old_sessions_troubled(f, max_age_minutes, troubled, trouble) ==
    [fs |-> [cls \in Classes |->
               [loc \in Locs |->
                   IF loc \notin DirNames \/ ~f[cls][loc].exists THEN f[cls][loc]
                   ELSE sweep_dir(f[cls][loc], max_age_minutes,
                                  IF <<cls, loc>> \in troubled THEN trouble ELSE "none")]],
     raised |-> FALSE]

\* run_cleanup with the directories of one session in trouble under some of
\* the roots
RunCleanupTroubled(loc, classes, trouble) ==
    LET f1 == cleanup_folder(
                 cleanup_folder(
                    cleanup_folder(fs, "uploads", UPLOAD_FILE_RETENTION_MINUTES, {"pdf"}),
                    "previews", PREVIEW_FILE_RETENTION_MINUTES, {"jpg"}),
                 "processed", PROCESSED_FILE_RETENTION_MINUTES, AllExts)
        max_age == Max(PROCESSED_FILE_RETENTION_MINUTES, SWEEP_FLOOR_MINUTES)
        troubled == {<<cls, loc>> : cls \in classes}
        r == cleanup_old_sessions_troubled(f1, max_age, troubled, trouble)
    IN  /\ fs' = r.fs
        /\ last' = [Resp("run_cleanup_troubled", 0, IF r.raised THEN 500 ELSE 0) EXCEPT
                       !.failed = TroubledDirs(fs, troubled),
                       !.removed = Cardinality({x \in Classes \X DirNames :
                                       /\ x \notin troubled
                                       /\ fs[x[1]][x[2]].exists
                                       /\ ~r.fs[x[1]][x[2]].exists})]
        /\ UNCHANGED <<PREVIEW_CACHE, session, probe, workers, call, last_time_called, clock, scheduler>>

\* the roots under which the session's directory is in trouble: one of
\* them, or all three (a clear of the session)
TroubledRoots == {{cls} : cls \in Classes} \cup {Classes}

NextSweep ==
    \/ Tick
    \/ \E classes \in TroubledRoots, t \in SweepTroubles :
          RunCleanupTroubled(OwnLoc(NumClients), classes, t)
    \/ \E c \in Clients, pw \in Passwords : ToolPreview(c, "rotate", 1, pw)
    \/ ProcessTool(NumClients, "rotate", TRUE)
SpecSweep == Init /\ [][NextSweep]_vars

\* C32: a sweep in which directories cannot be examined or removed, or have
\* vanished, ends without an exception, removes every other session
\* directory that is older than the limit, under each of the three roots,
\* and leaves the younger ones as they were
C32_SweepSkipsFailures ==
    [][last'.op = "run_cleanup_troubled" =>
          /\ last'.status = 0
          /\ \A cls \in Classes, loc \in DirNames :
                <<cls, loc>> \notin last'.failed =>
                   IF SweepsDir(fs[cls][loc], SweepMaxAge)
                   THEN ~fs'[cls][loc].exists
                   ELSE fs'[cls][loc] = fs[cls][loc]]_vars

\* a sweep has met a directory in trouble under uploads, the first root,
\* and has removed two other directories
C32_Witness ==
    /\ last.op = "run_cleanup_troubled"
    /\ \E x \in last.failed : x[1] = "uploads"
    /\ last.removed >= 2

(***************************************************************************)
(* Properties of the tracking of outputs and of the preview data           *)
(***************************************************************************)
\* C33: after a processing request has succeeded, every file of the
\* output_files that execute_tool returned, a bundling archive included,
\* is among the tracked processed files of the session
C33_OutputsTracked ==
    [][\A c \in TrackClients :
          (/\ ExecStep(c)
           /\ last'.op = "process_tool"
           /\ last'.status = 302)
          => \A i \in DOMAIN call'.result.output_files :
                StoredName(call'.result.output_files[i].base)
                    \in Range(TrackedNames(c)')]_vars

(***************************************************************************)
(* Properties of the deletion of a single processed file                   *)
(***************************************************************************)
\* the entries of a sequence of names other than x, in order
NamesWithout(seq, x) == LET Keep(n) == n # x IN SelectSeq(seq, Keep)
DetailsWithout(seq, x) == LET Keep(d) == d.stored_name # x IN SelectSeq(seq, Keep)

\* the session's tracking is what it was
TrackingKept(c) ==
    /\ TrackedNames(c)' = TrackedNames(c)
    /\ TrackedDetails(c)' = TrackedDetails(c)
    /\ TrackedTimes(c)' = TrackedTimes(c)

\* the deletion of filename has removed the file and its tracked entries and
\* nothing else
DeletedExactly(c, filename) ==
    LET file_path == JoinPath(get_session_folder("processed", Uuid4(c)), filename)
    IN  /\ ~PathExists(fs', file_path)
        /\ \A cls \in Classes, loc \in Locs :
              /\ fs'[cls][loc].exists = fs[cls][loc].exists
              /\ \A b \in DOMAIN fs[cls][loc].files :
                    ~(cls = file_path.cls /\ loc = file_path.loc /\ b = file_path.base)
                    => /\ b \in DOMAIN fs'[cls][loc].files
                       /\ fs'[cls][loc].files[b] = fs[cls][loc].files[b]
              /\ DOMAIN fs'[cls][loc].files \subseteq DOMAIN fs[cls][loc].files
        /\ filename \notin Range(TrackedNames(c)')
        /\ Len(TrackedNames(c)') >= Len(TrackedNames(c)) - 1
        /\ TrackedNames(c)' = NamesWithout(TrackedNames(c), filename)
        /\ TrackedDetails(c)' = DetailsWithout(TrackedDetails(c), filename)
        /\ DOMAIN TrackedTimes(c)' = DOMAIN TrackedTimes(c) \ {filename}
        /\ \A n \in DOMAIN TrackedTimes(c)' : TrackedTimes(c)'[n] = TrackedTimes(c)[n]

\* no file was created, removed or changed, and no directory removed
FilesKept ==
    \A cls \in Classes, loc \in Locs :
        /\ fs[cls][loc].exists => fs'[cls][loc].exists
        /\ fs'[cls][loc].files = fs[cls][loc].files

\* C34: deleting a single processed file removes the file from disk and
\* its entry from the tracked names, the details and the file times and
\* leaves every other entry and file unchanged; when the file does not
\* exist the request answers not-found and changes no file and no tracked
\* entry
C34_DeleteExact ==
    [][\A c \in TrackClients, filename \in UrlNames :
          CleanupSingleFile(c, filename) =>
             IF PathExists(fs, JoinPath(get_session_folder("processed", Uuid4(c)), filename))
             THEN last'.status = 200 /\ DeletedExactly(c, filename)
             ELSE last'.status = 404 /\ FilesKept /\ TrackingKept(c)]_vars

(***************************************************************************)
(* app.py: cache_previews applied to keys that share a content hash or a   *)
(* password                                                                *)
(***************************************************************************)
NumHashes == 2
CachePasswords == {"", "secret"}
\* cache_key = f"{file_hash}_{password}": a second password for the first
\* hash, and a second hash
StoreKeys ==
    {CacheKey(h, pw) : h \in 1..1, pw \in CachePasswords}
    \cup {CacheKey(h, "") : h \in 2..NumHashes}
\* the thumbnails and page_count arguments
StoreInputs ==
    {[thumbnails |-> <<"a.jpg">>, page_count |-> 1],
     [thumbnails |-> <<"b.jpg">>, page_count |-> 2],
     [thumbnails |-> <<"a.jpg", "b.jpg">>, page_count |-> 2]}

\* cache_previews(cache_key, thumbnails, page_count)
CachePreviews(cache_key, thumbnails, page_count) ==
    /\ PREVIEW_CACHE' = cache_previews(PREVIEW_CACHE, cache_key, thumbnails, page_count)
    /\ last' = [Resp("cache_previews", 0, 0) EXCEPT
                   !.args = <<cache_key, thumbnails, page_count>>,
                   !.evicted = cache_key \in DOMAIN PREVIEW_CACHE]
    /\ UNCHANGED <<fs, session, probe, workers, call, last_time_called, clock, scheduler>>

NextCache ==
    \/ Tick
    \/ \E k \in StoreKeys, in \in StoreInputs : CachePreviews(k, in.thumbnails, in.page_count)
SpecCache == Init /\ [][NextCache]_vars

\* C35: cache_previews(key, thumbnails, page_count) leaves under key an
\* entry of exactly the given thumbnails and page count with the timestamp
\* of now, whatever entry was there, and leaves the entry of every other
\* key, the same hash with another password included, as it was
C35_PutReplaces ==
    [][last'.op = "cache_previews" =>
          LET cache_key == last'.args[1]
          IN  /\ DOMAIN PREVIEW_CACHE' = DOMAIN PREVIEW_CACHE \cup {cache_key}
              /\ PREVIEW_CACHE'[cache_key] =
                    [previews |-> [thumbnails |-> last'.args[2],
                                   page_count |-> last'.args[3]],
                     age |-> 0]
              /\ \A k \in DOMAIN PREVIEW_CACHE \ {cache_key} :
                    PREVIEW_CACHE'[k] = PREVIEW_CACHE[k]]_vars

\* an entry has just been replaced while the same hash with the other
\* password has an older entry
C35_Witness ==
    /\ last.op = "cache_previews"
    /\ last.evicted
    /\ \E k \in DOMAIN PREVIEW_CACHE :
          /\ k # last.args[1]
          /\ k[1] = last.args[1][1]
          /\ PREVIEW_CACHE[k].age > 0

(***************************************************************************)
(* app.py: cleanup_on_startup, run once when the module is loaded, over    *)
(* what an earlier process left in the storage roots                       *)
(***************************************************************************)
\* names of files an earlier process may have left directly under a root
LeftoverNames(cls) ==
    IF cls = "previews" THEN {[stem |-> 1, ext |-> "jpg"], [stem |-> 2, ext |-> "jpg"]}
    ELSE IF cls = "uploads" THEN {[stem |-> 1, ext |-> "pdf"], [stem |-> 2, ext |-> "pdf"]}
    ELSE {[stem |-> 1, ext |-> "pdf"], [stem |-> 1, ext |-> "zip"]}

LeftoverFile == [age |-> 2 * TimeStep, content |-> 0]

\* a root holding the given leftover files
LeftoverRoot(names) == [NewDir EXCEPT !.files = [b \in names |-> LeftoverFile]]
\* a session directory an earlier process left, with one file in it
LeftoverDir(cls) ==
    [exists |-> TRUE, m |-> 2 * TimeStep, c |-> 2 * TimeStep,
     files |-> [b \in {CHOOSE x \in LeftoverNames(cls) : TRUE} |-> LeftoverFile]]

InitStartup ==
    /\ \E names \in [Classes -> SUBSET [stem : 1..2, ext : {"pdf", "jpg", "zip"}]],
          dirs \in SUBSET Classes :
          /\ \A cls \in Classes : names[cls] \subseteq LeftoverNames(cls)
          /\ fs = [cls \in Classes |->
                     [loc \in Locs |->
                         IF loc = RootLoc THEN LeftoverRoot(names[cls])
                         ELSE IF loc = OwnLoc(1) /\ cls \in dirs THEN LeftoverDir(cls)
                         ELSE AbsentDir]]
    /\ PREVIEW_CACHE = EmptyFn
    /\ session = [c \in Clients |-> EmptySession]
    /\ last = NoLast
    /\ probe = NoProbe
    /\ workers = NoWorkers
    /\ call = NoCall
    /\ last_time_called = 0
    /\ clock = NoClock
    /\ scheduler = NoJobs

\* the loop over one root: os.remove of every regular file directly in it
remove_root_files(f, cls) == [f EXCEPT ![cls][RootLoc].files = EmptyFn]

\* variant: the previews root is gone through as well
cleanup_on_startup_all(f) ==
    remove_root_files(remove_root_files(remove_root_files(f, "processed"), "uploads"),
                      "previews")

\* cleanup_on_startup: the processed root, then the uploads root
cleanup_on_startup(f) ==
    remove_root_files(remove_root_files(f, "processed"), "uploads")

CleanupOnStartup ==
    /\ last.op = "init"
    /\ fs' = cleanup_on_startup(fs)
    /\ last' = [Resp("cleanup_on_startup", 0, 0) EXCEPT
                   !.removed = Cardinality({x \in Classes \X [stem : 1..2, ext : {"pdf", "jpg", "zip"}] :
                                    /\ x[2] \in DOMAIN fs[x[1]][RootLoc].files
                                    /\ x[2] \notin DOMAIN fs'[x[1]][RootLoc].files})]
    /\ UNCHANGED <<PREVIEW_CACHE, session, probe, workers, call, last_time_called, clock, scheduler>>

\* the process starts, then serves requests
NextStartup ==
    \/ CleanupOnStartup
    \/ /\ last.op # "init"
       /\ \E c \in Clients, k \in Contents, pw \in Passwords : ToolPreview(c, "rotate", k, pw)
SpecStartup == InitStartup /\ [][NextStartup]_vars

\* C36: when the startup cleanup has run, no regular file is left directly
\* under the uploads, the processed or the previews root, whatever an
\* earlier process left there, and every session directory is as it was
C36_RootsEmptied ==
    [][last'.op = "cleanup_on_startup" =>
          \A cls \in Classes :
             /\ fs'[cls][RootLoc].files = EmptyFn
             /\ \A loc \in DirNames : fs'[cls][loc] = fs[cls][loc]]_vars

(***************************************************************************)
(* Processing after the uploads of the preview were removed                *)
(***************************************************************************)
NextGone ==
    \/ Tick
    \/ RunCleanup
    \/ \E c \in TrackClients :
          \/ \E n \in 1..NumBatch, k \in Contents, pw \in Passwords :
                ToolPreviewFiles(c, "rotate", n, k, pw)
          \/ \E o \in OutcomesFor("rotate", BatchLen(c)) : ProcessToolFiles(c, "rotate", o)
          \/ ClearSession(c)
SpecGone == Init /\ [][NextGone]_vars

\* the session has been served before, and the uploads of its preview are
\* gone: the directory of a previewed file was removed, or a clear dropped
\* the preview data with the directories
UploadsGone(c) ==
    /\ session[c].session_data # <<>>
    /\ \/ session[c].preview_data = <<>>
       \/ \E i \in DOMAIN session[c].preview_data[1].temp_files :
             LET p == session[c].preview_data[1].temp_files[i]
             IN  ~fs[p.cls][p.loc].exists

\* C37: a processing request of a session whose uploaded inputs were removed
\* after its preview is answered with an error, calls no tool, and leaves
\* the tracked files, the countdown, the preview cache and the files on disk
\* as they were
C37_GoneInputsRefused ==
    [][\A c \in TrackClients :
          (last'.op = "process_tool" /\ last'.client = c /\ UploadsGone(c)) =>
             /\ last'.status = 400
             /\ call' = call
             /\ fs' = fs
             /\ PREVIEW_CACHE' = PREVIEW_CACHE
             /\ TrackingKept(c)
             /\ session'[c].session_data[1].countdown = session[c].session_data[1].countdown
             /\ session'[c].preview_data = session[c].preview_data]_vars

\* a processing request has just been refused for a session that tracks a
\* processed file and whose previewed uploads were removed by the sweep
C37_Witness ==
    /\ last.op = "process_tool"
    /\ last.status = 400
    /\ last.client \in TrackClients
    /\ session[last.client].preview_data # <<>>
    /\ \E i \in DOMAIN session[last.client].preview_data[1].temp_files :
          LET p == session[last.client].preview_data[1].temp_files[i]
          IN  ~fs[p.cls][p.loc].exists
    /\ Len(TrackedNames(last.client)) > 0

\* the cache keys recorded in the preview data of the session
PreviewKeys(c) ==
    IF session[c].preview_data = <<>> THEN {}
    ELSE Range(session[c].preview_data[1].cache_keys)

FileIndexes == (0 - NumBatch - 1)..NumBatch

\* seq without its element at position pos (1-based)
RemoveAt(seq, pos) == SubSeq(seq, 1, pos - 1) \o SubSeq(seq, pos + 1, Len(seq))

\* the 1-based position that list[i] and list.pop(i) address: a negative i
\* counts from the end; 0 when they raise IndexError
ListPosition(seq, i) ==
    IF i >= 0 /\ i < Len(seq) THEN i + 1
    ELSE IF i < 0 /\ 0 - i <= Len(seq) THEN Len(seq) + i + 1
    ELSE 0

RemoveFileRequest(c, file_index) ==
    LET s0 == initialize_session(c, session[c])
        temp_files == IF s0.preview_data = <<>> THEN <<>> ELSE s0.preview_data[1].temp_files
        files == IF s0.preview_data = <<>> THEN <<>> ELSE s0.preview_data[1].files
        pos == ListPosition(temp_files, file_index)
    IN  /\ IF file_index >= Len(temp_files) \/ file_index >= Len(files)
           THEN /\ fs' = fs
                /\ session' = [session EXCEPT ![c] = s0]
                /\ last' = [Resp("remove_file", c, 400) EXCEPT !.args = <<file_index>>]
           ELSE IF pos = 0
           THEN /\ fs' = fs
                /\ session' = [session EXCEPT ![c] = s0]
                /\ last' = [Resp("remove_file", c, 500) EXCEPT !.args = <<file_index>>]
           ELSE /\ fs' = IF PathExists(fs, temp_files[pos])
                         THEN RemoveFile(fs, temp_files[pos]) ELSE fs
                /\ session' = [session EXCEPT ![c] =
                      [s0 EXCEPT !.preview_data =
                         <<[@[1] EXCEPT !.temp_files = RemoveAt(temp_files, pos),
                                        !.files = RemoveAt(files, ListPosition(files, file_index))]>>]]
                /\ last' = [Resp("remove_file", c, 200) EXCEPT !.args = <<file_index>>]
        /\ UNCHANGED <<PREVIEW_CACHE, probe, workers, call, last_time_called, clock, scheduler>>

NextRemove ==
    \/ Tick
    \/ RunCleanup
    \/ \E c \in TrackClients :
          \/ \E t \in {"merge", "rotate"}, n \in 1..NumBatch, k \in Contents, pw \in Passwords :
                ToolPreviewFiles(c, t, n, k, pw)
          \/ \E i \in FileIndexes : RemoveFileRequest(c, i)
          \/ ClearSession(c)
SpecRemove == Init /\ [][NextRemove]_vars

\* the previewed files of the session
PreviewTempFiles(c) ==
    IF session[c].preview_data = <<>> THEN <<>> ELSE session[c].preview_data[1].temp_files
PreviewFiles(c) ==
    IF session[c].preview_data = <<>> THEN <<>> ELSE session[c].preview_data[1].files

\* C39: remove_file with a file_index below 0 or not below the number of
\* previewed files answers with an error, deletes no file and leaves the
\* preview data as it was; with a valid index it deletes the upload at that
\* position and nothing else, and removes that position from temp_files and
\* from files, which are of the same length afterwards
C39_RemoveByIndex ==
    [][\A c \in TrackClients :
          (last'.op = "remove_file" /\ last'.client = c) =>
             LET file_index == last'.args[1]
                 n == Len(PreviewTempFiles(c))
             IN  IF file_index < 0 \/ file_index >= n
                 THEN /\ last'.status >= 400
                      /\ fs' = fs
                      /\ session'[c].preview_data = session[c].preview_data
                 ELSE /\ last'.status = 200
                      /\ ~PathExists(fs', PreviewTempFiles(c)[file_index + 1])
                      /\ \A cls \in Classes, loc \in Locs :
                            \A b \in DOMAIN fs[cls][loc].files :
                               [cls |-> cls, loc |-> loc, base |-> b]
                                    # PreviewTempFiles(c)[file_index + 1]
                               => /\ b \in DOMAIN fs'[cls][loc].files
                                  /\ fs'[cls][loc].files[b] = fs[cls][loc].files[b]
                      /\ PreviewTempFiles(c)' = RemoveAt(PreviewTempFiles(c), file_index + 1)
                      /\ PreviewFiles(c)' = RemoveAt(PreviewFiles(c), file_index + 1)
                      /\ Len(PreviewTempFiles(c)') = Len(PreviewFiles(c)')]_vars

\* C40: in every reachable state the list processed_files of a session is
\* the sequence of the stored_name values of its processed_files_details:
\* the same names in the same order, each as many times
C40_NamesMatchDetails ==
    \A c \in Clients :
        TrackedNames(c) = [i \in DOMAIN TrackedDetails(c) |-> TrackedDetails(c)[i].stored_name]

====
